---- MODULE Spec2Model ----
(***************************************************************************)
(* A model of the page-cache / copy-on-write backing store of the kernel   *)
(* (mizu/lib/kmem/src/phys.rs): Frame, FrameInfo, Phys, the flusher task   *)
(* and the byte-oriented read_at / write_at facade.                        *)
(*                                                                         *)
(* Every critical section of the source (ksync::critical + list.lock())    *)
(* is one atomic step of a task; the steps of different tasks interleave.  *)
(* A task runs one operation at a time; commit_impl's recursion into the   *)
(* parent chain is an explicit stack of activations.                       *)
(***************************************************************************)
EXTENDS Integers, Sequences, FiniteSets, TLC

\* ------------------------------------------------------------------ bounds
\* Bytes in a page of the model (the kernel's page is 2^PAGE_SHIFT bytes;
\* index << PAGE_SHIFT is index * PAGE_SIZE).
PAGE_SIZE == 2
\* Frames the allocator can hand out besides the canonical ZERO frame.
MaxFrames == 4
\* Phys objects (leaves and branches) that can exist.
MaxPhys == 5
\* Largest page index of a page table.
MaxIdx == 3
\* Largest byte value (0 is the zero byte).
MaxByte == 2
\* Largest pin count a scenario drives an entry to.
MaxPin == 1
\* Items the flusher channel holds in a scenario.
MaxChan == 2
\* Largest position a scenario seeks to.
MaxPos == 4
\* sygnal::NR_SIGNALS (64 in the source): the signals are 1..NR_SIGNALS and a
\* SigSet is a word of that many bits.
NR_SIGNALS == 4

\* --------------------------------------------------------------- universes
Frames == 1..MaxFrames
ZERO == 0
FrameIds == 0..MaxFrames
PhysIds == 1..MaxPhys
Idx == 0..MaxIdx
Bytes == 0..MaxByte
Tasks == {1, 2}
None == -1
\* What Frame::new yields when the allocator has no frame (it returns ENOMEM).
NoMem == -2
ENOMEM == "ENOMEM"
ENOENT == "ENOENT"
EIO == "EIO"

Max(a, b) == IF a >= b THEN a ELSE b
Min(a, b) == IF a <= b THEN a ELSE b
Zeros == [k \in 1..PAGE_SIZE |-> 0]

\* ------------------------------------------------------------- Frame::copy
\* A new frame's bytes: the first len bytes of src, the rest zero.
Frame_copy(src, len) == [k \in 1..PAGE_SIZE |-> IF k <= len THEN src[k] ELSE 0]

\* ------------------------------------------------------------- FrameInfo
\* st: "Vacant" (no map entry), "None" (an entry whose state is None),
\* "Shared", "Unique".
Vacant == [st |-> "Vacant", frame |-> ZERO, len |-> 0, dirty |-> FALSE, pin |-> 0]
FrameInfo_new(frame, len) ==
    [st |-> "Shared", frame |-> frame, len |-> len, dirty |-> FALSE, pin |-> 0]
Occupied(fi) == fi.st \in {"Shared", "Unique"}

\* Commit, and the error arm of Result<Commit, Error>.
CShared(frame, len) == [tag |-> "Shared", frame |-> frame, len |-> len, fi |-> Vacant, err |-> ""]
CUnique(fi) == [tag |-> "Unique", frame |-> fi.frame, len |-> fi.len, fi |-> fi, err |-> ""]
CErr(e) == [tag |-> "Err", frame |-> ZERO, len |-> 0, fi |-> Vacant, err |-> e]
NoRet == [tag |-> "NoRet", frame |-> ZERO, len |-> 0, fi |-> Vacant, err |-> ""]

\* What one call of FrameInfo::get leaves behind: the entry (fi), whether the
\* entry is removed from the map, the Commit returned, and the frame copy it
\* made (copy.dst = None when it made none).
NoCopy == [src |-> ZERO, dst |-> None, len |-> 0]
GetOut(fi, remove, ret, copy) == [fi |-> fi, remove |-> remove, ret |-> ret, copy |-> copy]

PinN(pin) == IF pin THEN 1 ELSE 0

\* FrameState::frame
FrameState_frame(fi, write) ==
    [fi EXCEPT !.len = IF write # None THEN Max(@, write) ELSE @]

\* FrameInfo::branch; nf is the frame Frame::new hands out, or NoMem.
branch_fork_bug(fi, write, pin, cow, nf) ==
    GetOut([FrameState_frame(fi, write) EXCEPT !.pin = @ + PinN(pin)], FALSE,
           CShared(fi.frame, Max(fi.len, write)), NoCopy)
\* A fork that keeps the copy in the branch and gives the original frame away.
branch_fork_swap(fi, write, pin, cow, nf) ==
    LET new_len == Max(fi.len, write) IN
    IF nf = NoMem
    THEN GetOut([fi EXCEPT !.st = "None", !.frame = ZERO, !.len = 0], FALSE,
                CErr(ENOMEM), NoCopy)
    ELSE GetOut([fi EXCEPT !.st = "Unique", !.len = new_len, !.frame = nf], FALSE,
                CUnique(FrameInfo_new(fi.frame, new_len)),
                [src |-> fi.frame, dst |-> nf, len |-> new_len])
branch_fork(fi, write, pin, cow, nf) ==
    LET new_len == Max(fi.len, write) IN
    IF nf = NoMem
    THEN \* mem::take left the state None and `?` returned before restoring it
         GetOut([fi EXCEPT !.st = "None", !.frame = ZERO, !.len = 0], FALSE,
                CErr(ENOMEM), NoCopy)
    ELSE GetOut([fi EXCEPT !.st = "Unique", !.len = new_len], FALSE,
                CUnique(FrameInfo_new(nf, new_len)),
                [src |-> fi.frame, dst |-> nf, len |-> new_len])

\* FrameInfo { pin: self.pin, ..FrameInfo::new(frame, len) }
carried_pin_none(fi) == 0
carried_pin(fi) == fi.pin

branch(fi, write, pin, cow, nf) ==
    CASE fi.st = "Shared" /\ write = None ->
           GetOut([fi EXCEPT !.pin = @ + PinN(pin)], FALSE,
                  CShared(fi.frame, fi.len), NoCopy)
      [] fi.st = "Shared" /\ write # None /\ ~cow ->
           GetOut([fi EXCEPT !.len = Max(@, write), !.pin = @ + PinN(pin)], FALSE,
                  CShared(fi.frame, Max(fi.len, write)), NoCopy)
      [] fi.st = "Shared" /\ write # None /\ cow ->
           branch_fork(fi, write, pin, cow, nf)
      [] fi.st = "Unique" ->
           GetOut(Vacant, TRUE,
                  CUnique([FrameInfo_new(fi.frame, fi.len) EXCEPT !.pin = carried_pin(fi)]),
                  NoCopy)
      [] OTHER -> GetOut(fi, FALSE, CErr(ENOENT), NoCopy)

\* FrameInfo::leaf
leaf(fi, write, pin, nf) ==
    LET fi1 == [fi EXCEPT !.dirty = @ \/ (write # None), !.pin = @ + PinN(pin)] IN
    IF Occupied(fi1)
    THEN LET fi2 == FrameState_frame(fi1, write) IN
         GetOut(fi2, FALSE, CShared(fi2.frame, fi2.len), NoCopy)
    ELSE IF write # None
         THEN IF nf = NoMem
              THEN GetOut(fi1, FALSE, CErr(ENOMEM), NoCopy)
              ELSE GetOut([fi1 EXCEPT !.st = "Shared", !.frame = nf, !.len = write],
                          FALSE, CShared(nf, write),
                          [src |-> ZERO, dst |-> nf, len |-> 0])
         ELSE GetOut(fi1, FALSE, CShared(ZERO, 0), NoCopy)

\* A get that takes every Phys for a branch.
get_as_branch(fi, is_branch, write, pin, cow, nf) == branch(fi, write, pin, cow, nf)
\* FrameInfo::get
get(fi, is_branch, write, pin, cow, nf) ==
    IF is_branch THEN branch(fi, write, pin, cow, nf) ELSE leaf(fi, write, pin, nf)

\* ------------------------------------------------------------------ offsets
\* offsets(start, end): ((start_page, start_offset), (end_page, end_offset))
offsets(start, end) ==
    LET start_page == start \div PAGE_SIZE
        start_offset == start - start_page * PAGE_SIZE
        ep == end \div PAGE_SIZE
        eo == end - ep * PAGE_SIZE
    IN [start_page |-> start_page, start_offset |-> start_offset,
        end_page |-> IF eo = 0 THEN ep - 1 ELSE ep,
        end_offset |-> IF eo = 0 THEN PAGE_SIZE ELSE eo]

\* ------------------------------------------------------------------ SigSet
\* sygnal::Sig is a signal number 1..NR_SIGNALS; SigSet(u64) has bit sig - 1 set
\* for each member. The words here are NR_SIGNALS bits wide.
Sigs == 1..NR_SIGNALS

RECURSIVE Pow2(_)
Pow2(n) == IF n = 0 THEN 1 ELSE 2 * Pow2(n - 1)

\* Bit k (from 0) of word x.
Bit(x, k) == (x \div Pow2(k)) % 2

RECURSIVE FromBits(_, _)
FromBits(f, k) == IF k = NR_SIGNALS THEN 0 ELSE f[k] * Pow2(k) + FromBits(f, k + 1)

\* x & y, x | y and !x on words.
BitAnd(x, y) == FromBits([k \in 0..(NR_SIGNALS - 1) |-> Bit(x, k) * Bit(y, k)], 0)
BitOr(x, y) ==
    FromBits([k \in 0..(NR_SIGNALS - 1) |-> Max(Bit(x, k), Bit(y, k))], 0)
BitNot(x) == Pow2(NR_SIGNALS) - 1 - x

\* Sig::mask: 1 << (self.0 - 1)
Sig_mask(sig) == Pow2(sig - 1)

\* SigSet::contains, for other = SigSet::from(sig): (!self & other).0 == 0
SigSet_contains(set, sig) == BitAnd(BitNot(set), Sig_mask(sig)) = 0

\* SigSet::insert: the set afterwards and the value returned.
SigSet_insert(set, sig) ==
    IF SigSet_contains(set, sig) THEN [set |-> set, ret |-> FALSE]
    ELSE [set |-> BitOr(set, Sig_mask(sig)), ret |-> TRUE]

\* A remove that clears the lowest member instead of sig.
SigSet_remove_lowest(set, sig) ==
    IF SigSet_contains(set, sig)
    THEN [set |-> BitAnd(set, set - 1), ret |-> TRUE]
    ELSE [set |-> set, ret |-> FALSE]
\* SigSet::remove: *self &= !sig when the set contains sig.
SigSet_remove(set, sig) ==
    IF SigSet_contains(set, sig)
    THEN [set |-> BitAnd(set, BitNot(Sig_mask(sig))), ret |-> TRUE]
    ELSE [set |-> set, ret |-> FALSE]

\* An iterator that starts from the highest member.
RECURSIVE highest_bit(_)
highest_bit(x) == IF x \div 2 = 0 THEN 0 ELSE 1 + highest_bit(x \div 2)
\* u64::trailing_zeros of a word that is not 0.
RECURSIVE trailing_zeros(_)
trailing_zeros(x) == IF x % 2 = 1 THEN 0 ELSE 1 + trailing_zeros(x \div 2)

\* Iterator::next for SigSet: the set afterwards and the item (None at the end).
SigSet_next(set) ==
    IF set # 0
    THEN LET n == trailing_zeros(set) IN
         [set |-> set - Pow2(n), ret |-> n + 1]
    ELSE [set |-> set, ret |-> None]

\* A SigSet nothing was called on: from is the set when the calls of the current
\* run of next() began, yielded what they returned so far.
SigSet_new(raw) ==
    [set |-> raw, op |-> "new", arg |-> 0, ret |-> None, before |-> raw,
     from |-> raw, yielded |-> <<>>]

\* ------------------------------------------------------------------- state
VARIABLES
    phys,      \* [PhysIds -> Phys]: branch, list.parent, list.frames, cow, flusher
    mem,       \* [FrameIds -> bytes of the frame]
    backend,   \* the bytes the Backend (Arc<dyn Io>) holds; its length is stream_len
    chan,      \* the flusher channel: queued FlushData, and whether rx is gone
    fl,        \* the flusher task: its position and the batch it is writing
    task,      \* [Tasks -> the operation a kernel task runs, and where it is]
    faults,    \* whether the allocator and the backend may fail at any call
    wrote,     \* per Phys and byte offset, the byte last written through it
    sigset,    \* a SigSet (sygnal), with the last call made on it and its result
    fat        \* a FAT (afat32): the raw entries, the last call on it and its result

vars == <<phys, mem, backend, chan, fl, task, faults, wrote, sigset, fat>>

MaxOff == (MaxIdx + 1) * PAGE_SIZE - 1
Offs == 0..MaxOff

\* Parent
NoParent == [kind |-> "None", phys |-> 0, start |-> 0, end |-> None]
BackendParent == [kind |-> "Backend", phys |-> 0, start |-> 0, end |-> None]
PhysParent(p, start, end) == [kind |-> "Phys", phys |-> p, start |-> start, end |-> end]

NoFlusher == [some |-> FALSE, offset |-> 0]
Flusher(offset) == [some |-> TRUE, offset |-> offset]

NoFrames == [i \in Idx |-> Vacant]
FreePhys == [kind |-> "free", parent |-> NoParent, frames |-> NoFrames,
             position |-> 0, cow |-> FALSE, flusher |-> NoFlusher]

\* Phys::new
Phys_new(initial_pos, cow) ==
    [kind |-> "leaf", parent |-> BackendParent, frames |-> NoFrames,
     position |-> initial_pos, cow |-> cow,
     flusher |-> IF cow THEN Flusher(0) ELSE NoFlusher]

\* Phys::new_anon
Phys_new_anon(cow) ==
    [kind |-> "leaf", parent |-> NoParent, frames |-> NoFrames,
     position |-> 0, cow |-> cow, flusher |-> NoFlusher]

\* A commit_impl activation: pc is "self_get", "parent", "await" (the recursive
\* parent.commit_impl), "read" (the backend read loop), "install", "new".
Activation(p, index, cow) ==
    [phys |-> p, index |-> index, cow |-> cow, pc |-> "self_get",
     frame |-> ZERO, rlen |-> 0]

\* The Phys whose page-table lock (list: Mutex<FrameList>) a task holds; no
\* Phys has id NoGuard.
NoGuard == 0

\* What a task that committed a page with pin = true and has not unpinned it
\* since remembers: the page, the frame it was given, and whether it has
\* committed that page for writing since (no operation reads this).
NoHeld == [phys |-> 0, index |-> 0, frame |-> None, written |-> FALSE]

NoRes == [status |-> "none", frame |-> ZERO, len |-> 0, data |-> <<>>, err |-> ""]
IdleTask ==
    [busy |-> FALSE, op |-> "idle", phys |-> 0, index |-> 0, write |-> None,
     pin |-> FALSE, off |-> 0, n |-> 0, data |-> <<>>, pg |-> 0, got |-> <<>>,
     stack |-> <<>>, ret |-> NoRet, res |-> NoRes, missed |-> FALSE,
     force |-> None, unpin |-> FALSE, foff |-> 0, cur |-> 0, fpc |-> "",
     items |-> <<>>, before |-> <<>>, held |-> NoHeld, guard |-> NoGuard,
     whence |-> "", pinsum |-> 0]

Top(t) == task[t].stack[Len(task[t].stack)]
InCommit(t, pc) == task[t].busy /\ task[t].stack # <<>> /\ Top(t).pc = pc
Front(s) == SubSeq(s, 1, Len(s) - 1)

\* ------------------------------------------------------------------ frames
\* The frames some Arc<Frame> still refers to: page-table entries, the locals of
\* running operations, results held by callers, queued flush data.
RECURSIVE SeqFrames(_)
SeqFrames(items) ==
    IF items = <<>> THEN {} ELSE {items[1].frame} \cup SeqFrames(Tail(items))
RECURSIVE ChanFrames(_)
ChanFrames(q) ==
    IF q = <<>> THEN {} ELSE SeqFrames(q[1].items) \cup ChanFrames(Tail(q))

LiveFrames ==
    {phys[p].frames[i].frame : p \in PhysIds, i \in Idx}
    \cup UNION {{task[t].stack[k].frame : k \in 1..Len(task[t].stack)} : t \in Tasks}
    \cup {task[t].ret.frame : t \in Tasks}
    \cup {task[t].res.frame : t \in Tasks}
    \cup {task[t].held.frame : t \in Tasks}
    \cup UNION {SeqFrames(task[t].items) : t \in Tasks}
    \cup ChanFrames(chan.q) \cup SeqFrames(fl.items)

\* Frame::new: the allocator hands out a frame nothing refers to (the lowest, the
\* frames being interchangeable), or fails: always when none is left, and at any
\* call when faults is set.
NewFrame(held) ==
    LET free == Frames \ (LiveFrames \cup held) IN
    IF free = {} THEN NoMem ELSE CHOOSE f \in free : \A g \in free : f <= g
AllocChoices(held) == IF faults THEN {NewFrame(held), NoMem} ELSE {NewFrame(held)}

\* The memory after the copy FrameInfo::get made (Frame::new zero-fills, then
\* Frame::copy copies the first len bytes).
ApplyCopy(m, copy) ==
    IF copy.dst = None THEN m
    ELSE [m EXCEPT ![copy.dst] = Frame_copy(m[copy.src], copy.len)]

\* ------------------------------------------------------------ commit_impl
CommitRes(r) ==
    CASE r.tag = "Shared" -> [NoRes EXCEPT !.status = "ok", !.frame = r.frame, !.len = r.len]
      [] r.tag = "Err" -> [NoRes EXCEPT !.status = "err", !.err = r.err]
      [] OTHER -> [NoRes EXCEPT !.status = "panic"]   \* unreachable!()

\* The task after its operation returned res: the operation's locals are gone;
\* what it was asked (op, phys, index, write, pin, off, n) and res stay readable.
TaskDone(tk, res) ==
    [IdleTask EXCEPT !.op = tk.op, !.phys = tk.phys, !.index = tk.index,
                     !.write = tk.write, !.pin = tk.pin, !.off = tk.off, !.n = tk.n,
                     !.missed = tk.missed, !.res = res, !.held = tk.held,
                     !.whence = tk.whence, !.pinsum = tk.pinsum,
                     !.before = IF res.status \in {"err", "cancelled"}
                                THEN tk.before ELSE <<>>]

\* The task after its top activation returned r. `Ok(s @ Commit::Shared(..)) =>
\* Ok(s)` and `Err(err) => Err(err)` do nothing at any level, so the result passes
\* through every awaiting caller; a Commit::Unique stops at the caller, which
\* installs it. Phys::commit ends when its commit_impl returned.
Held(tk, r) ==
    LET index == tk.stack[1].index IN
    IF r.tag # "Shared" THEN tk.held
    ELSE IF tk.pin /\ tk.held.frame = None
    THEN [phys |-> tk.phys, index |-> index, frame |-> r.frame, written |-> FALSE]
    ELSE IF /\ tk.held.frame # None /\ tk.write # None
            /\ tk.held.phys = tk.phys /\ tk.held.index = index
    THEN [tk.held EXCEPT !.written = TRUE]
    ELSE tk.held

Returned(tk, r) ==
    LET tk1 == IF r.tag = "Unique" /\ Len(tk.stack) > 1
               THEN [tk EXCEPT !.stack = Front(@), !.ret = r]
               ELSE [tk EXCEPT !.stack = <<>>, !.ret = r, !.held = Held(tk, r)]
    IN IF tk1.stack = <<>> /\ tk.op = "commit"
       THEN TaskDone(tk1, CommitRes(r))
       ELSE tk1

\* A critical section whose MutexGuard outlives the closure.
critical_held(p) == p
\* ksync::critical(|| { let mut list = self.list.lock(); ... }): the lock the
\* task holds on Phys p's page table once the closure has returned. The guard
\* is a local of the closure, so none.
critical(p) == NoGuard

\* Task tk after a critical section on Phys p.
Unlock(tk, p) == [tk EXCEPT !.guard = critical(p)]

\* self.list.lock() by task t (0: a caller outside the tasks) gets the spin
\* lock of Phys p only while no other task holds it.
CanLock(t, p) == \A u \in Tasks \ {t} : task[u].guard # p

SetTop(tk, a) == [tk EXCEPT !.stack[Len(tk.stack)] = a]

\* pub static ZERO: Lazy<Arc<Frame>> = Lazy::new(|| Arc::new(Frame::new().unwrap())).
\* The bytes of frame ZERO are <<>> until the Lazy is forced.
ZERO_forced(m) == m[ZERO] # <<>>

\* The result ret of a critical section on Phys p leaves activation Top(t), the
\* memory being m. A ZERO.clone() that produced it was the first use of ZERO
\* when the Lazy is not forced yet: it runs Frame::new().unwrap(), which
\* panics when the allocator fails.
ReturnFrom(t, p, ret, m) ==
    IF ret.tag = "Shared" /\ ret.frame = ZERO /\ ~ZERO_forced(m)
    THEN \/ /\ mem' = [m EXCEPT ![ZERO] = Zeros]
            /\ task' = [task EXCEPT ![t] = Unlock(Returned(task[t], ret), p)]
         \/ /\ faults
            /\ mem' = m
            /\ task' = [task EXCEPT ![t] =
                  TaskDone(task[t], [NoRes EXCEPT !.status = "panic", !.err = ENOMEM])]
    ELSE /\ mem' = m
         /\ task' = [task EXCEPT ![t] = Unlock(Returned(task[t], ret), p)]

\* list.frames.entry(index).insert(fi): the entry is set, whether or not the map
\* already held one for the index.
entry_insert(old, fi) == fi

\* The critical section `insert fi; FrameInfo::get(ent, ...)` of activation a
\* of task t, and the return of its result.
InstallAndGet(t, a, fi, held) ==
    /\ CanLock(t, a.phys)
    /\ \E nf \in AllocChoices(held \cup {fi.frame}) :
        LET p == a.phys
            ent == entry_insert(phys[p].frames[a.index], fi)
            o == get(ent, phys[p].kind = "branch", task[t].write, task[t].pin, a.cow, nf)
        IN /\ phys' = [phys EXCEPT ![p].frames[a.index] =
                          IF o.remove THEN Vacant ELSE o.fi]
           /\ ReturnFrom(t, a.phys, o.ret, ApplyCopy(mem, o.copy))

\* let self_get = critical(|| ... FrameInfo::get(ent, ...) ...)
commit_self_get(t) ==
    /\ InCommit(t, "self_get")
    /\ CanLock(t, Top(t).phys)
    /\ LET a == Top(t)
           p == a.phys
           fi == phys[p].frames[a.index]
       IN IF fi.st # "Vacant"
          THEN \E nf \in AllocChoices({}) :
                 LET o == get(fi, phys[p].kind = "branch", task[t].write,
                              task[t].pin, a.cow, nf)
                 IN /\ phys' = [phys EXCEPT ![p].frames[a.index] =
                                   IF o.remove THEN Vacant ELSE o.fi]
                    /\ ReturnFrom(t, a.phys, o.ret, ApplyCopy(mem, o.copy))
          ELSE /\ task' = [task EXCEPT ![t] = Unlock([SetTop(task[t], [a EXCEPT !.pc = "parent"])
                                 EXCEPT !.missed = @ \/ (Len(task[t].stack) = 1)], a.phys)]
               /\ UNCHANGED <<phys, mem>>
    /\ UNCHANGED <<backend, chan, fl, faults, wrote, sigset, fat>>

\* A parent link that lets every index through.
InWindow_all(par, index) == TRUE
InWindow(par, index) ==
    par.end = None \/ (0 <= index /\ index < par.end - par.start)

\* A fetch that puts its frame into the page table before the page is read.
FetchStart_installed(p, index, nf) ==
    [phys EXCEPT ![p].frames[index] = FrameInfo_new(nf, 0)]
\* let mut frame = Frame::new()?: the page tables when the backend read loop
\* starts. The frame is a local; nothing is installed before the loop ends.
FetchStart(p, index, nf) == phys

\* A no-parent path that answers every commit with the canonical zero frame.
ZeroServes_any(write) == TRUE
\* let Some(new_len) = write else { return Ok(Commit::Shared(ZERO.clone(), 0)) }:
\* whether the no-parent path answers with the canonical zero frame.
ZeroServes(write) == write = None

\* critical(|| self.list.lock().parent.clone()) and the dispatch on it, up to
\* the first step that awaits or locks again.
commit_parent(t) ==
    /\ InCommit(t, "parent")
    /\ CanLock(t, Top(t).phys)
    /\ LET a == Top(t)
           par == phys[a.phys].parent
       IN CASE par.kind = "Phys" /\ InWindow(par, a.index) ->
                 /\ par.start + a.index \in Idx
                 /\ task' = [task EXCEPT ![t] =
                       Unlock([task[t] EXCEPT !.stack =
                                  Append(Front(@) \o <<[a EXCEPT !.pc = "await"]>>,
                                         Activation(par.phys, par.start + a.index,
                                                    phys[par.phys].cow \/ a.cow))],
                              a.phys)]
                 /\ UNCHANGED <<phys, mem>>
            [] par.kind = "Backend" ->
                 \E nf \in AllocChoices({}) :
                    IF nf = NoMem
                    THEN /\ task' = [task EXCEPT ![t] =
                               Unlock(Returned(task[t], CErr(ENOMEM)), a.phys)]
                         /\ UNCHANGED <<phys, mem>>
                    ELSE /\ task' = [task EXCEPT ![t] =
                               Unlock(SetTop(task[t], [a EXCEPT !.pc = "read",
                                                                !.frame = nf, !.rlen = 0]),
                                      a.phys)]
                         /\ mem' = [mem EXCEPT ![nf] = Zeros]
                         /\ phys' = FetchStart(a.phys, a.index, nf)
            [] OTHER ->
                 /\ IF ZeroServes(task[t].write)
                    THEN ReturnFrom(t, a.phys, CShared(ZERO, 0), mem)
                    ELSE /\ task' = [task EXCEPT ![t] =
                               Unlock(SetTop(task[t], [a EXCEPT !.pc = "new"]), a.phys)]
                         /\ UNCHANGED mem
                 /\ UNCHANGED phys
    /\ UNCHANGED <<backend, chan, fl, faults, wrote, sigset, fat>>

\* A read loop that takes the backend's first answer for the whole page.
read_loop_once(read_len) == "install"
\* if buffer.is_empty() { break read_len; }: the loop goes on until the page is full
\* (or a read returns 0, which commit_read tells by itself).
read_loop(read_len) == IF read_len = PAGE_SIZE THEN "install" ELSE "read"

\* One backend.read_at(offset, &mut [buffer]).await of the read loop: an error,
\* 0 at the end of the backend, or any number of bytes up to what is there.
commit_read(t) ==
    /\ InCommit(t, "read")
    /\ LET a == Top(t)
           offset == a.index * PAGE_SIZE + a.rlen
           avail == Min(PAGE_SIZE - a.rlen, Len(backend) - offset)
       IN \/ /\ faults
             /\ task' = [task EXCEPT ![t] = Returned(task[t], CErr(EIO))]
             /\ UNCHANGED mem
          \/ /\ avail <= 0
             /\ task' = [task EXCEPT ![t] = SetTop(task[t], [a EXCEPT !.pc = "install"])]
             /\ UNCHANGED mem
          \/ \E len \in 1..avail :
                /\ mem' = [mem EXCEPT ![a.frame] =
                      [k \in 1..PAGE_SIZE |->
                          IF k > a.rlen /\ k <= a.rlen + len
                          THEN backend[a.index * PAGE_SIZE + k] ELSE @[k]]]
                /\ task' = [task EXCEPT ![t] =
                      SetTop(task[t], [a EXCEPT !.rlen = @ + len,
                          !.pc = read_loop(a.rlen + len)])]
    /\ UNCHANGED <<phys, backend, chan, fl, faults, wrote, sigset, fat>>

\* The Backend arm's critical section: insert FrameInfo::new(frame, len), get.
commit_install(t) ==
    /\ InCommit(t, "install")
    /\ LET a == Top(t) IN InstallAndGet(t, a, FrameInfo_new(a.frame, a.rlen), {})
    /\ UNCHANGED <<backend, chan, fl, faults, wrote, sigset, fat>>

\* The no-parent path of a write: FrameInfo::new(Arc::new(Frame::new()?), new_len),
\* then the critical section that inserts it and gets.
commit_new(t) ==
    /\ InCommit(t, "new")
    /\ CanLock(t, Top(t).phys)
    /\ LET a == Top(t) IN
       \E nf \in AllocChoices({}) :
          IF nf = NoMem
          THEN /\ task' = [task EXCEPT ![t] = Returned(task[t], CErr(ENOMEM))]
               /\ UNCHANGED <<phys, mem>>
          ELSE \E nf2 \in AllocChoices({nf}) :
                 LET p == a.phys
                     fi == FrameInfo_new(nf, task[t].write)
                     ent == entry_insert(phys[p].frames[a.index], fi)
                     o == get(ent, phys[p].kind = "branch", task[t].write,
                              task[t].pin, a.cow, nf2)
                 IN /\ phys' = [phys EXCEPT ![p].frames[a.index] =
                                   IF o.remove THEN Vacant ELSE o.fi]
                    /\ ReturnFrom(t, a.phys, o.ret,
                                  ApplyCopy([mem EXCEPT ![nf] = Zeros], o.copy))
    /\ UNCHANGED <<backend, chan, fl, faults, wrote, sigset, fat>>

\* Ok(Commit::Unique(fi)) from the parent: the critical section that inserts fi
\* into the local page table and gets.
commit_unique(t) ==
    /\ InCommit(t, "await")
    /\ task[t].ret.tag = "Unique"
    /\ InstallAndGet(t, Top(t), task[t].ret.fi, {})
    /\ UNCHANGED <<backend, chan, fl, faults, wrote, sigset, fat>>

\* ------------------------------------------------------------ Phys::commit
\* A task entering operation op of Phys p. For the error-handling claims it
\* remembers the page tables it found (only where faults are injected; no
\* operation reads this).
StartOp(t, op, p) ==
    [IdleTask EXCEPT !.busy = TRUE, !.op = op, !.phys = p, !.held = task[t].held,
        !.before = IF faults THEN [q \in PhysIds |-> phys[q].frames] ELSE <<>>]

\* The commit a running operation issues: commit_impl(index, writable, pin, self.cow).
PushCommit(tk, index, write, pin) ==
    [tk EXCEPT !.write = write, !.pin = pin, !.ret = NoRet,
               !.stack = <<Activation(tk.phys, index, phys[tk.phys].cow)>>]

\* The pins the page tables hold and the pinning commits still running.
RECURSIVE SumPins(_)
SumPins(S) ==
    IF S = {} THEN 0
    ELSE LET x == CHOOSE y \in S : TRUE IN phys[x[1]].frames[x[2]].pin + SumPins(S \ {x})
PinsHeld ==
    SumPins(PhysIds \X Idx)
    + Cardinality({t \in Tasks : task[t].busy /\ task[t].op = "commit" /\ task[t].pin})

\* pub async fn commit(&self, index, writable, pin)
\* The pin counts of the entries for page index of p, in p's page table and in
\* the page tables of its parent chain (parent.start + index at each level).
RECURSIVE ChainPins(_, _, _)
ChainPins(p, index, fuel) ==
    (IF index \in Idx THEN phys[p].frames[index].pin ELSE 0)
    + (IF fuel > 0 /\ phys[p].parent.kind = "Phys" /\ InWindow(phys[p].parent, index)
       THEN ChainPins(phys[p].parent.phys, phys[p].parent.start + index, fuel - 1)
       ELSE 0)

commit(t, p, index, write, pin) ==
    /\ ~task[t].busy
    /\ phys[p].kind = "leaf"                       \* assert!(!self.branch)
    /\ pin => PinsHeld < MaxPin
    /\ task' = [task EXCEPT ![t] =
          PushCommit([StartOp(t, "commit", p) EXCEPT
                         !.index = index,
                         !.pinsum = ChainPins(p, index, MaxPhys)],   \* history only
                     index, write, pin)]
    /\ UNCHANGED <<phys, mem, backend, chan, fl, faults, wrote, sigset, fat>>

\* The future of task t's commit is dropped while it is suspended in the
\* backend's read_at (its callers, if any, in the recursive commit_impl): its
\* locals, the fetched frame among them, are dropped and nothing else runs.
cancel(t) ==
    /\ task[t].busy /\ task[t].op = "commit"
    /\ task[t].stack # <<>> /\ Top(t).pc = "read"
    /\ task' = [task EXCEPT ![t] =
          TaskDone(task[t], [NoRes EXCEPT !.status = "cancelled"])]
    /\ UNCHANGED <<phys, mem, backend, chan, fl, faults, wrote, sigset, fat>>

\* ------------------------------------------------------- copy_from_frame
\* The bytes copy_from_frame moves out of frame bytes fr[start..end) into a buffer
\* with room for buflen bytes (the scatter list taken as one slice). With
\* end < start, `end - start` overflows: a build with overflow checks panics; a
\* build without wraps, copies a whole buffer's worth from fr[start..] and panics
\* when that runs past the page.
copy_from_frame(buflen, fr, start, end, checks) ==
    IF buflen = 0 \/ end = start THEN [panic |-> FALSE, bytes |-> <<>>]
    ELSE IF end > start
         THEN [panic |-> FALSE,
               bytes |-> [k \in 1..Min(buflen, end - start) |-> fr[start + k]]]
         ELSE IF checks \/ start + buflen > PAGE_SIZE
              THEN [panic |-> TRUE, bytes |-> <<>>]
              ELSE [panic |-> FALSE, bytes |-> [k \in 1..buflen |-> fr[start + k]]]

\* copy_to_frame: the frame bytes after buf's first min(len(buf), end - start)
\* bytes went to fr[start..]; callers pass start < end.
copy_to_frame(buf, fr, start, end) ==
    [k \in 1..PAGE_SIZE |->
        IF k > start /\ k <= start + Min(Len(buf), end - start)
        THEN buf[k - start] ELSE fr[k]]

\* ---------------------------------------------------------------- Io::seek
EINVAL == "EINVAL"

\* The position seek stores and returns, or the error of the failed
\* conversion to usize.
SeekRes(pos) ==
    IF pos < 0 THEN [NoRes EXCEPT !.status = "err", !.err = EINVAL]
    ELSE [NoRes EXCEPT !.status = "ok", !.len = pos]
SeekStore(p, pos) ==
    IF pos < 0 THEN phys ELSE [phys EXCEPT ![p].position = pos]

\* async fn seek(&self, whence: SeekFrom), up to its first await. For
\* SeekFrom::End the position is loaded, the parent link cloned under the lock,
\* and parent.stream_len() awaited. (A Phys parent's stream_len is the Io
\* trait's provided method, which is not part of these sources: seek from the
\* end is modelled for a Backend parent and for no parent.)
seek(t, p, whence, pos) ==
    /\ ~task[t].busy
    /\ phys[p].kind = "leaf"
    /\ LET tk == [StartOp(t, "seek", p) EXCEPT !.whence = whence, !.off = pos] IN
       CASE whence = "Start" ->
              /\ pos >= 0 /\ pos <= MaxPos
              /\ phys' = SeekStore(p, pos)
              /\ task' = [task EXCEPT ![t] = TaskDone(tk, SeekRes(pos))]
         [] whence = "Current" ->
              /\ pos + phys[p].position <= MaxPos
              /\ phys' = SeekStore(p, pos + phys[p].position)
              /\ task' = [task EXCEPT ![t] =
                    TaskDone(tk, SeekRes(pos + phys[p].position))]
         [] whence = "End" ->
              /\ phys[p].parent.kind # "Phys"
              /\ CanLock(t, p)
              /\ IF phys[p].parent.kind = "Backend"
                 THEN /\ task' = [task EXCEPT ![t] =
                            Unlock([tk EXCEPT !.n = phys[p].position,
                                              !.fpc = "stream_len"], p)]
                      /\ UNCHANGED phys
                 ELSE /\ phys' = SeekStore(p, pos + phys[p].position)
                      /\ task' = [task EXCEPT ![t] =
                            Unlock(TaskDone(tk, SeekRes(pos + phys[p].position)), p)]
    /\ UNCHANGED <<mem, backend, chan, fl, faults, wrote, sigset, fat>>

\* len = len.max(parent.stream_len().await?) for a Backend parent, and the
\* rest of seek.
seek_len(t) ==
    /\ task[t].busy /\ task[t].op = "seek" /\ task[t].fpc = "stream_len"
    /\ LET tk == task[t]
           pos == tk.off + Max(tk.n, Len(backend))
       IN \/ /\ phys' = SeekStore(tk.phys, pos)
             /\ task' = [task EXCEPT ![t] = TaskDone(tk, SeekRes(pos))]
          \/ /\ faults
             /\ task' = [task EXCEPT ![t] =
                   TaskDone(tk, [NoRes EXCEPT !.status = "err", !.err = EIO])]
             /\ UNCHANGED phys
    /\ UNCHANGED <<mem, backend, chan, fl, faults, wrote, sigset, fat>>

\* ------------------------------------------------------------- Io::read_at
read_at(t, p, off, n) ==
    /\ ~task[t].busy
    /\ phys[p].kind = "leaf"
    /\ LET tk == [StartOp(t, "read_at", p) EXCEPT !.off = off, !.n = n]
       IN task' = [task EXCEPT ![t] =
             IF n = 0
             THEN TaskDone(tk, [NoRes EXCEPT !.status = "ok"])
             ELSE [PushCommit(tk, offsets(off, off + n).start_page, None, FALSE)
                      EXCEPT !.pg = offsets(off, off + n).start_page]]
    /\ UNCHANGED <<phys, mem, backend, chan, fl, faults, wrote, sigset, fat>>



\* What read_at does with the (frame, end) a commit returned: copy out, then
\* return or commit the next page.
read_at_copy(t) ==
    /\ task[t].busy /\ task[t].op = "read_at"
    /\ task[t].stack = <<>> /\ task[t].ret.tag # "NoRet"
    /\ LET tk == task[t]
           r == tk.ret
           o == offsets(tk.off, tk.off + tk.n)
           room == tk.n - Len(tk.got)
           single == o.start_page = o.end_page
           start == IF tk.pg = o.start_page THEN o.start_offset ELSE 0
           end == IF tk.pg = o.end_page THEN Min(o.end_offset, r.len) ELSE r.len
       IN IF r.tag # "Shared"
          THEN task' = [task EXCEPT ![t] = TaskDone(tk, CommitRes(r))]
          ELSE \E checks \in BOOLEAN :
                 LET c == copy_from_frame(room, mem[r.frame], start, end, checks)
                     got == tk.got \o c.bytes
                     left == room - Len(c.bytes)
                 IN task' = [task EXCEPT ![t] =
                       IF c.panic
                       THEN TaskDone(tk, [NoRes EXCEPT !.status = "panic"])
                       ELSE IF tk.pg = o.end_page \/ r.len < PAGE_SIZE \/ left = 0
                            THEN TaskDone(tk, [NoRes EXCEPT !.status = "ok", !.data = got])
                            ELSE [PushCommit(tk, tk.pg + 1, None, FALSE)
                                     EXCEPT !.pg = tk.pg + 1, !.got = got]]
    /\ UNCHANGED <<phys, mem, backend, chan, fl, faults, wrote, sigset, fat>>

\* ------------------------------------------------------------ Io::write_at
WriteLen(o, pg) == IF pg = o.end_page THEN o.end_offset ELSE PAGE_SIZE

write_at(t, p, off, data) ==
    /\ ~task[t].busy
    /\ phys[p].kind = "leaf"
    /\ LET tk == [StartOp(t, "write_at", p) EXCEPT !.off = off, !.n = Len(data),
                                                 !.data = data]
           o == offsets(off, off + Len(data))
       IN task' = [task EXCEPT ![t] =
             IF data = <<>>
             THEN TaskDone(tk, [NoRes EXCEPT !.status = "ok"])
             ELSE [PushCommit(tk, o.start_page, WriteLen(o, o.start_page), FALSE)
                      EXCEPT !.pg = o.start_page]]
    /\ UNCHANGED <<phys, mem, backend, chan, fl, faults, wrote, sigset, fat>>

\* What write_at does with the frame a commit returned: copy in, then return or
\* commit the next page. tk.got counts the bytes written so far.
write_at_copy(t) ==
    /\ task[t].busy /\ task[t].op = "write_at"
    /\ task[t].stack = <<>> /\ task[t].ret.tag # "NoRet"
    /\ LET tk == task[t]
           r == tk.ret
           o == offsets(tk.off, tk.off + tk.n)
           done == Len(tk.got)
           buf == SubSeq(tk.data, done + 1, tk.n)
           start == IF tk.pg = o.start_page THEN o.start_offset ELSE 0
           end == WriteLen(o, tk.pg)
           len == Min(Len(buf), end - start)
           got == tk.got \o SubSeq(buf, 1, len)
       IN IF r.tag # "Shared"
          THEN /\ task' = [task EXCEPT ![t] = TaskDone(tk, CommitRes(r))]
               /\ UNCHANGED <<mem, wrote>>
          ELSE /\ mem' = [mem EXCEPT ![r.frame] = copy_to_frame(buf, @, start, end)]
               /\ wrote' = [wrote EXCEPT ![tk.phys] =
                     [b \in Offs |->
                         LET k == b - (tk.pg * PAGE_SIZE + start) IN
                         IF k >= 0 /\ k < len THEN buf[k + 1] ELSE @[b]]]
               /\ task' = [task EXCEPT ![t] =
                     IF tk.pg = o.end_page \/ len = Len(buf)
                     THEN TaskDone(tk, [NoRes EXCEPT !.status = "ok", !.len = Len(got)])
                     ELSE [PushCommit(tk, tk.pg + 1, WriteLen(o, tk.pg + 1), FALSE)
                              EXCEPT !.pg = tk.pg + 1, !.got = got]]
    /\ UNCHANGED <<phys, backend, chan, fl, faults, sigset, fat>>

\* ---------------------------------------------------------- Phys::clone_as
\* The Phys objects not yet constructed, lowest first.
FreeIds == {p \in PhysIds : phys[p].kind = "free"}
LowestFree(S) == CHOOSE p \in S : \A q \in S : p <= q

\* A branch whose parent link is the branch itself.
branch_parent_self(p, b) == PhysParent(b, 0, None)
\* parent: list.parent.clone(): the new branch b adopts the parent of the caller p.
branch_parent(p, b) == phys[p].parent

\* pub fn new_anon(cow) called once more: another Phys, with no parent.
new_anon(cow) ==
    /\ FreeIds # {}
    /\ LET q == LowestFree(FreeIds) IN
       /\ phys' = [phys EXCEPT ![q] = Phys_new_anon(cow)]
       /\ wrote' = [wrote EXCEPT ![q] = [o \in Offs |-> None]]
    /\ UNCHANGED <<mem, backend, chan, fl, task, faults, sigset, fat>>

\* pub fn clone_as(&self, cow, index_offset, fixed_count): the critical section
\* that pushes the caller's parent and frames into a new branch, and the
\* construction of the returned leaf.
\* frames: mem::take(&mut list.frames): what is left in the caller's page table.
mem_take_frames_copy(frames) == frames
mem_take_frames(frames) == NoFrames

\* offset: flusher.offset + index_offset
clone_offset_same(offset, index_offset) == offset
clone_offset(offset, index_offset) == offset + index_offset

\* list.parent = Some(Parent::Phys { phys: branch.clone(), start: 0, end: None }),
\* inside the critical section that built the branch.
relinked_late(p, b) == phys[p].parent
relinked(p, b) == PhysParent(b, 0, None)

clone_as(p, cow, index_offset, fixed_count) ==
    /\ phys[p].kind = "leaf"
    /\ CanLock(0, p)
    /\ Cardinality(FreeIds) >= 2
    /\ LET b == LowestFree(FreeIds)
           q == LowestFree(FreeIds \ {b})
       IN /\ phys' = [phys EXCEPT
                ![b] = [kind |-> "branch", parent |-> branch_parent(p, b),
                        frames |-> phys[p].frames, position |-> 0, cow |-> FALSE,
                        flusher |-> NoFlusher],
                ![p] = [@ EXCEPT !.parent = relinked(p, b),
                                 !.frames = mem_take_frames(phys[p].frames)],
                ![q] = [kind |-> "leaf",
                        parent |-> PhysParent(b, index_offset,
                            IF fixed_count = None THEN None
                            ELSE fixed_count + index_offset),
                        frames |-> NoFrames, position |-> 0, cow |-> cow,
                        flusher |-> IF phys[p].flusher.some /\ cow
                                    THEN Flusher(clone_offset(phys[p].flusher.offset,
                                                              index_offset))
                                    ELSE NoFlusher]]
          /\ wrote' = [wrote EXCEPT ![q] =
                [o \in Offs |->
                    LET po == o + index_offset * PAGE_SIZE IN
                    IF po \in Offs /\ (fixed_count = None \/ o < fixed_count * PAGE_SIZE)
                    THEN wrote[p][po] ELSE None]]
    /\ UNCHANGED <<mem, backend, chan, fl, task, faults, sigset, fat>>

\* ------------------------------------------------------------- Phys::flush
\* Arc::strong_count of Phys b: the list.parent links to it and the clones of
\* such a link that running operations hold (commit_impl's `parent` across the
\* recursive call, flush's `storage`).
StrongCount(b) ==
    Cardinality({p \in PhysIds : phys[p].kind \in {"leaf", "branch"}
                    /\ phys[p].parent.kind = "Phys" /\ phys[p].parent.phys = b})
    + Cardinality({<<t, k>> \in Tasks \X (1..MaxPhys) :
                    k < Len(task[t].stack) /\ task[t].stack[k + 1].phys = b})
    + Cardinality({t \in Tasks : task[t].busy /\ task[t].op \in {"flush", "flush_all"}
                    /\ task[t].cur = b /\ task[t].cur # task[t].phys})

\* sender.send(data).await on the unbounded channel: queued unless rx is gone.
Send(c, data) == IF c.closed THEN c ELSE [c EXCEPT !.q = Append(@, data)]

\* A send whose failure on a closed channel reaches the caller.
SendRes_propagated(c) ==
    IF c.closed THEN [NoRes EXCEPT !.status = "err", !.err = EIO]
    ELSE [NoRes EXCEPT !.status = "ok"]
\* let _ = flusher.sender.send(..).await: what the send returned is dropped.
SendRes(c) == [NoRes EXCEPT !.status = "ok"]

FlushItem(index, frame, len) == [index |-> index, frame |-> frame, len |-> len]

\* pub async fn flush(&self, index, force_dirty, unpin); force_dirty is None,
\* or 0 for Some(false), 1 for Some(true).
flush(t, p, index, force_dirty, unpin) ==
    /\ ~task[t].busy
    /\ phys[p].kind = "leaf"
    /\ Len(chan.q) < MaxChan
    /\ LET unheld == /\ unpin /\ task[t].held.frame # None
                     /\ task[t].held.phys = p /\ task[t].held.index = index
           tk == [IdleTask EXCEPT !.op = "flush", !.phys = p, !.index = index,
                                  !.force = force_dirty, !.unpin = unpin,
                                  !.held = IF unheld THEN NoHeld ELSE task[t].held]
       IN task' = [task EXCEPT ![t] =
             IF ~phys[p].flusher.some
             THEN [tk EXCEPT !.res = [NoRes EXCEPT !.status = "ok"]]
             ELSE [tk EXCEPT !.busy = TRUE, !.cur = p, !.fpc = "get",
                             !.foff = phys[p].flusher.offset]]
    /\ UNCHANGED <<phys, mem, backend, chan, fl, faults, wrote, sigset, fat>>

\* The critical section of flush's loop: unpin, take the dirty bit, pick the frame.
flush_get(t) ==
    /\ task[t].busy /\ task[t].op = "flush" /\ task[t].fpc = "get"
    /\ CanLock(t, task[t].cur)
    /\ LET tk == task[t]
           fi == phys[tk.cur].frames[tk.index]
           dirty == IF tk.force = None THEN fi.dirty ELSE tk.force = 1
       IN IF fi.st = "Vacant"
          THEN /\ task' = [task EXCEPT ![t] = Unlock([task[t] EXCEPT !.fpc = "parent"], tk.cur)]
               /\ UNCHANGED phys
          ELSE /\ phys' = [phys EXCEPT ![tk.cur].frames[tk.index] =
                     [fi EXCEPT !.pin = Max(0, @ - PinN(tk.unpin)), !.dirty = FALSE]]
               /\ task' = [task EXCEPT ![t] = Unlock(IF dirty /\ Occupied(fi)
                     THEN [tk EXCEPT !.fpc = "send",
                              !.items = <<FlushItem(tk.index + tk.foff, fi.frame, fi.len)>>]
                     ELSE [tk EXCEPT !.fpc = "parent"], tk.cur)]
    /\ UNCHANGED <<mem, backend, chan, fl, faults, wrote, sigset, fat>>

\* flusher.sender.send(FlushData::Single(..)).await; break Ok(())
flush_send(t) ==
    /\ task[t].busy /\ task[t].op = "flush" /\ task[t].fpc = "send"
    /\ chan' = Send(chan, [kind |-> "Single", items |-> task[t].items])
    /\ task' = [task EXCEPT ![t] =
          TaskDone([task[t] EXCEPT !.items = <<>>, !.fpc = ""], SendRes(chan))]
    /\ UNCHANGED <<phys, mem, backend, fl, faults, wrote, sigset, fat>>

\* The rest of the loop body: clone the parent link and climb into the branch
\* only when the clone is the one strong reference to it.
flush_parent(t) ==
    /\ task[t].busy /\ task[t].op \in {"flush", "flush_all"} /\ task[t].fpc = "parent"
    /\ CanLock(t, task[t].cur)
    /\ LET tk == task[t]
           par == phys[tk.cur].parent
           pi == par.start + tk.index
           climb == /\ par.kind = "Phys"
                    /\ ~(StrongCount(par.phys) + 1 > 1)
                    /\ (tk.op = "flush" => (par.end = None \/ pi <= par.end))
       IN task' = [task EXCEPT ![t] = Unlock(IF climb
             THEN [tk EXCEPT !.foff = @ - par.start, !.cur = par.phys, !.fpc = "get",
                             !.index = IF tk.op = "flush" THEN pi ELSE @]
             ELSE TaskDone([tk EXCEPT !.fpc = ""], [NoRes EXCEPT !.status = "ok"]), tk.cur)]
    /\ UNCHANGED <<phys, mem, backend, chan, fl, faults, wrote, sigset, fat>>

\* --------------------------------------------------------- Phys::flush_all
flush_all(t, p) ==
    /\ ~task[t].busy
    /\ phys[p].kind = "leaf"
    /\ Len(chan.q) < MaxChan
    /\ LET tk == [IdleTask EXCEPT !.op = "flush_all", !.phys = p,
                                  !.held = task[t].held] IN
       task' = [task EXCEPT ![t] =
             IF ~phys[p].flusher.some
             THEN [tk EXCEPT !.res = [NoRes EXCEPT !.status = "ok"]]
             ELSE [tk EXCEPT !.busy = TRUE, !.cur = p, !.fpc = "get",
                             !.foff = phys[p].flusher.offset]]
    /\ UNCHANGED <<phys, mem, backend, chan, fl, faults, wrote, sigset, fat>>

\* A flush_all that looks at page 0 only.
DirtyItems_first(frames, i, offset) ==
    IF frames[0].dirty /\ Occupied(frames[0])
    THEN <<FlushItem(offset, frames[0].frame, frames[0].len)>>
    ELSE <<>>

\* The dirty entries of a page table as flush data, by ascending index (the
\* indexes differ, so the order within a batch does not change what is written).
RECURSIVE DirtyItems(_, _, _)
DirtyItems(frames, i, offset) ==
    IF i > MaxIdx THEN <<>>
    ELSE (IF frames[i].dirty /\ Occupied(frames[i])
          THEN <<FlushItem(i + offset, frames[i].frame, frames[i].len)>>
          ELSE <<>>) \o DirtyItems(frames, i + 1, offset)

\* The critical section of flush_all's loop: take every dirty bit of the level.
flush_all_get(t) ==
    /\ task[t].busy /\ task[t].op = "flush_all" /\ task[t].fpc = "get"
    /\ CanLock(t, task[t].cur)
    /\ LET tk == task[t] IN
       /\ phys' = [phys EXCEPT ![tk.cur].frames =
             [i \in Idx |-> [@[i] EXCEPT !.dirty = FALSE]]]
       /\ task' = [task EXCEPT ![t] = Unlock([tk EXCEPT !.fpc = "send",
                        !.items = DirtyItems(phys[tk.cur].frames, 0, tk.foff)], tk.cur)]
    /\ UNCHANGED <<mem, backend, chan, fl, faults, wrote, sigset, fat>>

\* flusher.sender.send(FlushData::Multiple(data)).await
flush_all_send(t) ==
    /\ task[t].busy /\ task[t].op = "flush_all" /\ task[t].fpc = "send"
    /\ chan' = Send(chan, [kind |-> "Multiple", items |-> task[t].items])
    /\ task' = [task EXCEPT ![t] =
          IF SendRes(chan).status = "ok"
          THEN [task[t] EXCEPT !.items = <<>>, !.fpc = "parent"]
          ELSE TaskDone([task[t] EXCEPT !.items = <<>>, !.fpc = ""], SendRes(chan))]
    /\ UNCHANGED <<phys, mem, backend, fl, faults, wrote, sigset, fat>>

\* ------------------------------------------------------------ flusher task
\* backend.write_all_at(offset, bytes): the backend grows, zero-filled, to hold them.
write_all_at(b, offset, bytes) ==
    IF bytes = <<>> THEN b
    ELSE [k \in 1..Max(Len(b), offset + Len(bytes)) |->
            IF k > offset /\ k <= offset + Len(bytes) THEN bytes[k - offset]
            ELSE IF k <= Len(b) THEN b[k] ELSE 0]

\* After the match on the item: the writes of a batch follow one another, and
\* `let _ = backend.flush().await` comes once they are over.
flusher_after_noflush(items) == IF items = <<>> THEN "recv" ELSE "write"
flusher_after(items) == IF items = <<>> THEN "flush" ELSE "write"

\* The Senders of the channel: one in every Phys that has a flusher.
Senders == {p \in PhysIds : phys[p].kind = "leaf" /\ phys[p].flusher.some}

\* let Ok(data) = rx.recv().await else { break }: the channel is empty and no
\* Sender is left (end of stream), the task returns and rx is dropped.
flusher_end ==
    /\ fl.pc = "recv"
    /\ chan.q = <<>> /\ ~chan.closed
    /\ Senders = {}
    /\ fl' = [pc |-> "done", items |-> <<>>]
    /\ chan' = [chan EXCEPT !.closed = TRUE]
    /\ UNCHANGED <<phys, mem, backend, task, faults, wrote, sigset, fat>>

\* let Ok(data) = rx.recv().await
flusher_recv ==
    /\ fl.pc = "recv"
    /\ chan.q # <<>>
    /\ fl' = [pc |-> flusher_after(Head(chan.q).items),
              items |-> Head(chan.q).items]
    /\ chan' = [chan EXCEPT !.q = Tail(@)]
    /\ UNCHANGED <<phys, mem, backend, task, faults, wrote, sigset, fat>>

\* let _ = backend.write_all_at(index << PAGE_SHIFT, &frame[..len]).await
flusher_write ==
    /\ fl.pc = "write"
    /\ LET it == Head(fl.items) IN
       \/ backend' = write_all_at(backend, it.index * PAGE_SIZE,
                                  SubSeq(mem[it.frame], 1, it.len))
       \/ faults /\ UNCHANGED backend
    /\ fl' = [pc |-> flusher_after(Tail(fl.items)),
              items |-> Tail(fl.items)]
    /\ UNCHANGED <<phys, mem, chan, task, faults, wrote, sigset, fat>>

\* let _ = backend.flush().await
flusher_flush ==
    /\ fl.pc = "flush"
    /\ fl' = [fl EXCEPT !.pc = "recv"]
    /\ UNCHANGED <<phys, mem, backend, chan, task, faults, wrote, sigset, fat>>

\* The future Phys::new returned, which owns rx, is dropped (or was never
\* polled and is dropped): the channel closes and what it queued is gone.
flusher_drop ==
    /\ ~chan.closed
    /\ chan' = [q |-> <<>>, closed |-> TRUE]
    /\ fl' = [pc |-> "dropped", items |-> <<>>]
    /\ UNCHANGED <<phys, mem, backend, task, faults, wrote, sigset, fat>>

\* ---------------------------------------------------------- Drop for Phys
\* A drop that climbs into every parent branch.
get_mut_any(b) == TRUE
\* Arc::get_mut(phys) is Some: the link just taken out of the child's
\* list.parent (still counted here, the child being there) is the only strong
\* reference to branch b.
get_mut(b) == StrongCount(b) = 1

\* The Phys objects that go away with Phys p, child first: p, and each parent
\* branch nothing else refers to. Drop's loop visits exactly these when p has a
\* flusher and the channel is open; the drop of p's fields releases them otherwise.
RECURSIVE Owned(_, _)
Owned(p, fuel) ==
    <<p>> \o (IF fuel > 0 /\ phys[p].parent.kind = "Phys" /\ get_mut(phys[p].parent.phys)
              THEN Owned(phys[p].parent.phys, fuel - 1) ELSE <<>>)

\* let _ = flusher.sender.try_send(FlushData::Multiple(data.collect())), once per
\* level visited, with flusher.offset -= start between the levels.
RECURSIVE DropData(_, _, _)
DropData(chain, k, offset) ==
    IF k > Len(chain) THEN <<>>
    ELSE <<[kind |-> "Multiple",
            items |-> DirtyItems(phys[chain[k]].frames, 0, offset)]>>
         \o DropData(chain, k + 1, offset - phys[chain[k]].parent.start)

\* impl Drop for Phys, run on a leaf nothing borrows any more, and the drop of
\* its fields after it. Nothing in it waits: try_send returns at once.
drop(p) ==
    /\ phys[p].kind = "leaf"
    /\ \A t \in Tasks : ~(task[t].busy /\ task[t].phys = p)
    /\ Len(chan.q) < MaxChan
    /\ LET chain == Owned(p, MaxPhys)
           gone == {chain[k] : k \in 1..Len(chain)}
       IN /\ chan' = IF phys[p].flusher.some /\ ~chan.closed
                     THEN [chan EXCEPT !.q = @ \o DropData(chain, 1, phys[p].flusher.offset)]
                     ELSE chan
          /\ phys' = [q \in PhysIds |-> IF q \in gone THEN FreePhys ELSE phys[q]]
          /\ wrote' = [wrote EXCEPT ![p] = [o \in Offs |-> None]]
    /\ UNCHANGED <<mem, backend, fl, task, faults, sigset, fat>>

\* ------------------------------------------------------------ SigSet calls
\* ss.insert(sig), ss.remove(sig), ss.next() on the SigSet; ret keeps the bool
\* as 1 or 0, and next's item as the signal number or None.
insert(sig) ==
    /\ LET r == SigSet_insert(sigset.set, sig) IN
       sigset' = [set |-> r.set, op |-> "insert", arg |-> sig,
                  ret |-> IF r.ret THEN 1 ELSE 0, before |-> sigset.set,
                  from |-> r.set, yielded |-> <<>>]
    /\ UNCHANGED <<phys, mem, backend, chan, fl, task, faults, wrote, fat>>

remove(sig) ==
    /\ LET r == SigSet_remove(sigset.set, sig) IN
       sigset' = [set |-> r.set, op |-> "remove", arg |-> sig,
                  ret |-> IF r.ret THEN 1 ELSE 0, before |-> sigset.set,
                  from |-> r.set, yielded |-> <<>>]
    /\ UNCHANGED <<phys, mem, backend, chan, fl, task, faults, wrote, fat>>

next ==
    /\ LET r == SigSet_next(sigset.set) IN
       sigset' = [sigset EXCEPT !.set = r.set, !.op = "next", !.arg = 0,
                                !.ret = r.ret, !.before = sigset.set,
                                !.yielded = IF r.ret = None THEN @
                                            ELSE Append(@, r.ret)]
    /\ UNCHANGED <<phys, mem, backend, chan, fl, task, faults, wrote, fat>>

\* -------------------------------------------------------------- afat32 Fat
\* The table holds one raw u32 per cluster; the top 4 bits of an entry are kept
\* by every write and the low 28 bits are the FatEntry. Raw words are modelled
\* as naturals below 2^31 (the top bit is always clear here).
RESERVED_FAT_ENTRIES == 2
CLUSTER_COUNT == 3
BATCH_LEN == 2
LOW_BITS == 268435456        \* raw & 0x0fff_ffff = raw % LOW_BITS
BAD_CLUSTER == 268435447     \* 0x0FFF_FFF7
EOC_FIRST == 268435448       \* 0x0FFF_FFF8
EOC_LAST == 268435455        \* 0x0FFF_FFFF
ENOSPC == "ENOSPC"

\* allocable_range() = RESERVED_FAT_ENTRIES..(cluster_count + RESERVED_FAT_ENTRIES)
allocable_start == RESERVED_FAT_ENTRIES
allocable_end == CLUSTER_COUNT + RESERVED_FAT_ENTRIES
Allocable == allocable_start..(allocable_end - 1)
Clusters == 0..(allocable_end - 1)

FatEntry_Free == [tag |-> "Free", n |-> 0]
FatEntry_Next(n) == [tag |-> "Next", n |-> n]
FatEntry_Bad == [tag |-> "Bad", n |-> 0]
FatEntry_End == [tag |-> "End", n |-> 0]

\* FatEntry::from_raw
from_raw(raw, cluster) ==
    LET v == raw % LOW_BITS
        special == BAD_CLUSTER <= cluster /\ cluster <= EOC_LAST
    IN IF v = 0 THEN (IF special THEN FatEntry_Bad ELSE FatEntry_Free)
       ELSE IF v = BAD_CLUSTER THEN FatEntry_Bad
       ELSE IF v >= EOC_FIRST THEN FatEntry_End
       ELSE IF special THEN FatEntry_Bad
       ELSE FatEntry_Next(v)

\* FatEntry::into_raw: old_raw | raw, where old_raw has the top 4 bits only and
\* raw is below 2^28, so the or is a sum.
into_raw(entry, cluster, old_raw) ==
    old_raw + (CASE entry.tag = "Free" -> 0
                 [] entry.tag = "Bad" -> BAD_CLUSTER
                 [] entry.tag = "End" -> EOC_LAST
                 [] OTHER -> entry.n)

\* Fat::get_raw
get_raw(tab, cluster) ==
    IF cluster >= allocable_end THEN [err |-> EINVAL, raw |-> 0]
    ELSE [err |-> "", raw |-> tab[cluster]]

\* Fat::get
Fat_get(tab, cluster) ==
    LET r == get_raw(tab, cluster) IN
    [err |-> r.err, entry |-> from_raw(r.raw, cluster)]

\* Fat::set: old = get_raw(cluster)? & 0xf000_0000, then the entry is written.
Fat_set(tab, cluster, entry) ==
    LET r == get_raw(tab, cluster) IN
    IF r.err # "" THEN [err |-> r.err, tab |-> tab]
    ELSE [err |-> "",
          tab |-> [tab EXCEPT ![cluster] =
                     into_raw(entry, cluster, (r.raw \div LOW_BITS) * LOW_BITS)]]

\* Fat::iter_next
iter_next(tab, cluster) ==
    LET g == Fat_get(tab, cluster) IN
    [err |-> g.err,
     next |-> IF g.err = "" /\ g.entry.tag = "Next" THEN g.entry.n ELSE None]

\* Fat::free: cluster_chain(chain_start) reads the successor of a cluster
\* before the fold sets the cluster Free; acc counts the clusters set.
RECURSIVE free_from(_, _, _, _)
free_from(tab, cluster, acc, fuel) ==
    LET n == iter_next(tab, cluster)
        s == Fat_set(tab, cluster, FatEntry_Free)
    IN IF s.err # "" THEN [err |-> s.err, ret |-> 0, tab |-> tab]
       ELSE IF n.err # "" THEN [err |-> n.err, ret |-> 0, tab |-> s.tab]
       ELSE IF n.next = None \/ fuel = 0
            THEN [err |-> "", ret |-> acc + 1, tab |-> s.tab]
            ELSE free_from(s.tab, n.next, acc + 1, fuel - 1)
Fat_free(tab, chain_start) == free_from(tab, chain_start, 0, 2 * CLUSTER_COUNT)

\* Fat::truncate
Fat_truncate(tab, chain_start) ==
    LET s == Fat_set(tab, chain_start, FatEntry_End) IN
    IF s.err # "" THEN [err |-> s.err, ret |-> 0, tab |-> s.tab]
    ELSE LET n == iter_next(s.tab, chain_start) IN
         IF n.err # "" THEN [err |-> n.err, ret |-> 0, tab |-> s.tab]
         ELSE IF n.next # None THEN Fat_free(s.tab, n.next)
         ELSE [err |-> "", ret |-> 0, tab |-> s.tab]

\* The bounds of a RangeBounds<u32>.
Included(v) == [kind |-> "Included", v |-> v]
Excluded(v) == [kind |-> "Excluded", v |-> v]
Unbounded == [kind |-> "Unbounded", v |-> 0]

\* Fat::find_free: the batches of (start..end).step_by(BATCH_LEN), each read
\* with get_range and scanned in cluster order.
RECURSIVE find_free_from(_, _, _)
find_free_from(tab, start, end) ==
    IF start >= end THEN [err |-> ENOSPC, ret |-> 0]
    ELSE LET len == Min(BATCH_LEN, end - start)
             batch == start..(Min(start + len, allocable_end) - 1)
             free == {c \in batch : from_raw(tab[c], c) = FatEntry_Free}
         IN IF free # {}
            THEN [err |-> "", ret |-> CHOOSE c \in free : \A d \in free : c <= d]
            ELSE find_free_from(tab, start + BATCH_LEN, end)
find_free(tab, start_bound, end_bound) ==
    LET start == CASE start_bound.kind = "Included" ->
                        Max(start_bound.v, allocable_start)
                   [] start_bound.kind = "Excluded" ->
                        Max(start_bound.v + 1, allocable_start)
                   [] OTHER -> allocable_end
        end == CASE end_bound.kind = "Included" -> Min(end_bound.v + 1, allocable_end)
                 [] end_bound.kind = "Excluded" -> Min(end_bound.v, allocable_end)
                 [] OTHER -> allocable_end
    IN find_free_from(tab, start, end)

\* Fat::allocate
Fat_allocate(tab, prev, hint) ==
    LET h == IF hint = None THEN allocable_start ELSE hint
        r1 == find_free(tab, Included(h), Unbounded)
        r == IF r1.err = ENOSPC THEN find_free(tab, Unbounded, Excluded(h)) ELSE r1
    IN IF r.err # "" THEN [err |-> r.err, ret |-> 0, tab |-> tab]
       ELSE LET s1 == Fat_set(tab, r.ret, FatEntry_End) IN
            IF s1.err # "" THEN [err |-> s1.err, ret |-> 0, tab |-> s1.tab]
            ELSE IF prev = None THEN [err |-> "", ret |-> r.ret, tab |-> s1.tab]
            ELSE LET s2 == Fat_set(s1.tab, prev, FatEntry_Next(r.ret)) IN
                 IF s2.err # "" THEN [err |-> s2.err, ret |-> 0, tab |-> s2.tab]
                 ELSE [err |-> "", ret |-> r.ret, tab |-> s2.tab]

\* A table, with the last call made on it, its arguments and its result.
NoFat == [c \in Clusters |-> 0]
Fat_new(tab) ==
    [tab |-> tab, op |-> "new", arg |-> None, hint |-> None, ret |-> 0, err |-> "",
     before |-> tab]

\* fat.truncate(chain_start)
truncate(chain_start) ==
    /\ LET r == Fat_truncate(fat.tab, chain_start) IN
       fat' = [tab |-> r.tab, op |-> "truncate", arg |-> chain_start, hint |-> None,
               ret |-> r.ret, err |-> r.err, before |-> fat.tab]
    /\ UNCHANGED <<phys, mem, backend, chan, fl, task, faults, wrote, sigset>>

\* fat.allocate(prev, hint)
allocate(prev, hint) ==
    /\ LET r == Fat_allocate(fat.tab, prev, hint) IN
       fat' = [tab |-> r.tab, op |-> "allocate", arg |-> prev, hint |-> hint,
               ret |-> r.ret, err |-> r.err, before |-> fat.tab]
    /\ UNCHANGED <<phys, mem, backend, chan, fl, task, faults, wrote, sigset>>

\* ------------------------------------------------------------ the scenarios
AllIdle == \A t \in Tasks : ~task[t].busy
\* Nothing was cloned yet: Phys 1 is the only Phys.
Uncloned == \A p \in PhysIds \ {1} : phys[p].kind = "free"
Leaves == {p \in PhysIds : phys[p].kind = "leaf"}

\* The state after the constructor: Phys 1 is the Phys it returned.
InitWith(root, backends, fault) ==
    /\ phys = [p \in PhysIds |-> IF p = 1 THEN root ELSE FreePhys]
    /\ mem = [f \in FrameIds |-> Zeros]
    /\ backend \in backends
    /\ chan = [q |-> <<>>, closed |-> FALSE]
    /\ fl = [pc |-> "recv", items |-> <<>>]
    /\ task = [t \in Tasks |-> IdleTask]
    /\ faults = fault
    /\ wrote = [p \in PhysIds |-> [o \in Offs |-> None]]
    /\ sigset = SigSet_new(0)
    /\ fat = Fat_new(NoFat)

\* Spec: P = Phys::new(backend, 0, cow = true); one task writes and reads single
\* bytes of the first IsoBytes bytes of P and of its cow clone, one call after
\* another.
IsoBytes == 2
Init == InitWith(Phys_new(0, TRUE), {<<>>, <<1, 2>>}, FALSE)

SeqWrite == \E p \in Leaves, off \in 0..(IsoBytes - 1), b \in 1..MaxByte :
               AllIdle /\ off \in Offs /\ write_at(1, p, off, <<b>>)
SeqRead == \E p \in Leaves, off \in 0..(IsoBytes - 1) :
               AllIdle /\ off \in Offs /\ read_at(1, p, off, 1)
SeqCloneCow == \E p \in Leaves : AllIdle /\ Uncloned /\ clone_as(p, TRUE, 0, None)

Next ==
    \/ SeqWrite
    \/ SeqRead
    \/ SeqCloneCow
    \/ commit_self_get(1)
    \/ commit_parent(1)
    \/ commit_read(1)
    \/ commit_install(1)
    \/ commit_unique(1)
    \/ read_at_copy(1)
    \/ write_at_copy(1)

Spec == Init /\ [][Next]_vars

\* The byte Phys p holds at byte offset o as far as its own history says: the
\* byte last written through p (or through the Phys it was cloned from, before
\* the clone), else the backend's byte, else zero.
Expect(p, o) ==
    IF wrote[p][o] # None THEN wrote[p][o]
    ELSE IF o < Len(backend) THEN backend[o + 1] ELSE 0

ReadDone(t, p) ==
    /\ ~task[t].busy /\ task[t].op = "read_at" /\ task[t].phys = p
    /\ task[t].res.status = "ok"

\* C1 (cow isolation). P = Phys::new(backend, 0, cow = true) and its cow clones,
\* written and read in any order, one call at a time: every byte a read_at on a
\* Phys returns is the byte that Phys's own history gives for the offset (what
\* was written through it, else the snapshot), and a byte written through it is
\* returned; a write through the sibling never shows.
C1_CowIsolation ==
    \A p \in PhysIds :
        ReadDone(1, p) =>
            /\ \A k \in 1..Len(task[1].res.data) :
                   task[1].res.data[k] = Expect(p, task[1].off + k - 1)
            /\ wrote[p][task[1].off] # None => task[1].res.data # <<>>

\* P and its clone Q (Phys 3) hold different bytes at offset 0, Q's written after
\* the clone, and a read of P at offset 0 has just returned P's byte.
C1_Witness ==
    /\ phys[3].kind = "leaf" /\ phys[3].frames[0].dirty
    /\ wrote[3][0] # None /\ wrote[1][0] # None /\ wrote[3][0] # wrote[1][0]
    /\ ReadDone(1, 1) /\ task[1].off = 0 /\ task[1].res.data = <<wrote[1][0]>>

\* ---------------------------------------------------------------- SpecRace
\* P = Phys::new(backend, 0, cow = true), no clone. Task 1 writes a byte of
\* page 0 and then reads it back, as often as it likes; task 2 commits page 0
\* meanwhile. The critical sections of the two tasks interleave freely.
RaceInit == InitWith(Phys_new(0, TRUE), {<<>>, <<1, 2>>}, FALSE)

RaceWrite == \E off \in 0..(PAGE_SIZE - 1), b \in 1..MaxByte :
                task[1].op # "write_at" /\ write_at(1, 1, off, <<b>>)
RaceRead == task[1].op = "write_at" /\ read_at(1, 1, task[1].off, 1)
RaceCommit == \E write \in {None} \cup 1..PAGE_SIZE, pin \in BOOLEAN :
                commit(2, 1, 0, write, pin)

RaceNext ==
    \/ RaceWrite
    \/ RaceRead
    \/ RaceCommit
    \/ \E t \in Tasks : commit_self_get(t)
    \/ \E t \in Tasks : commit_parent(t)
    \/ \E t \in Tasks : commit_read(t)
    \/ \E t \in Tasks : commit_install(t)
    \/ read_at_copy(1)
    \/ write_at_copy(1)

SpecRace == RaceInit /\ [][RaceNext]_vars

\* C2 (write-then-read, in every interleaving with other tasks' commits). A
\* read_at(o, 1) that a task issues after its write_at(o, <<b>>) completed, with
\* no write in between, returns <<b>>.
C2_WriteThenRead ==
    \A t \in Tasks, p \in PhysIds :
        (ReadDone(t, p) /\ wrote[p][task[t].off] # None)
            => task[t].res.data = <<wrote[p][task[t].off]>>

\* C4 (the second committer keeps the first one's entry). In SpecRace no entry
\* ever leaves P's page table, so an occupied entry keeps its frame in every
\* step, also in the step of a task that missed earlier and now installs.
C4_KeepsInstalledEntry ==
    [][\A i \in Idx :
          Occupied(phys[1].frames[i])
              => phys'[1].frames[i].frame = phys[1].frames[i].frame]_vars

\* C9 (valid-length monotonicity). The valid_len stored for a page of a Phys
\* never decreases from one step to the next while the page stays in the table.
C9_ValidLenMonotone ==
    [][\A p \in PhysIds, i \in Idx :
          (Occupied(phys[p].frames[i]) /\ Occupied(phys'[p].frames[i]))
              => phys'[p].frames[i].len >= phys[p].frames[i].len]_vars

\* --------------------------------------------------------------- SpecFault
\* P = Phys::new(backend, 0, cow = true) and a cow clone; one task commits page
\* 0, one call after another, while Frame::new and the backend's read_at may
\* fail at any call.
FaultInit == InitWith(Phys_new(0, TRUE), {<<>>, <<1, 2>>}, TRUE)

FaultCommit == \E p \in Leaves, write \in {None} \cup 1..PAGE_SIZE :
                  AllIdle /\ commit(1, p, 0, write, FALSE)
FaultClone == \E p \in Leaves : AllIdle /\ Uncloned /\ clone_as(p, TRUE, 0, None)

FaultNext ==
    \/ FaultCommit
    \/ FaultClone
    \/ commit_self_get(1)
    \/ commit_parent(1)
    \/ commit_read(1)
    \/ commit_install(1)
    \/ commit_unique(1)

SpecFault == FaultInit /\ [][FaultNext]_vars

\* C3 (no partial state on error). When a commit has failed, every page table
\* is exactly what the commit found when it was called.
C3_ErrorLeavesTables ==
    \A t \in Tasks :
        (~task[t].busy /\ task[t].op = "commit" /\ task[t].res.status = "err")
            => \A p \in PhysIds : phys[p].frames = task[t].before[p]

\* --------------------------------------------------------------- SpecFlush
\* P = Phys::new(backend, 0, cow) for either cow; one task writes one
\* or two bytes at offset 0 or PAGE_SIZE - 1 (two bytes there straddle the page
\* boundary) and calls flush_all, one call after another, while the flusher task runs.
FlushInit == \E cow \in BOOLEAN : InitWith(Phys_new(0, cow), {<<>>, <<1, 2>>}, FALSE)

FlushWrite == \E off \in {0, PAGE_SIZE - 1}, data \in {<<1>>, <<2, 1>>} :
                 AllIdle /\ write_at(1, 1, off, data)
FlushAll == AllIdle /\ flush_all(1, 1)

FlushNext ==
    \/ FlushWrite
    \/ FlushAll
    \/ commit_self_get(1)
    \/ commit_parent(1)
    \/ commit_read(1)
    \/ commit_install(1)
    \/ write_at_copy(1)
    \/ flush_all_get(1)
    \/ flush_all_send(1)
    \/ flush_parent(1)
    \/ flusher_recv
    \/ flusher_write
    \/ flusher_flush

SpecFlush == FlushInit /\ [][FlushNext]_vars

\* The last call was a flush_all, it has returned, and the flusher has drained
\* its channel and is waiting for more.
FlushedAll ==
    /\ task[1].op = "flush_all" /\ ~task[1].busy
    /\ chan.q = <<>> /\ fl.pc = "recv"

\* The backend holds every byte written through Phys p at the offset it was
\* written to.
BackendHolds(p) ==
    \A o \in Offs : wrote[p][o] # None =>
        (o + 1 <= Len(backend) /\ backend[o + 1] = wrote[p][o])

\* C5 as stated (flush writeback for either cow). After writes, a flush_all and
\* the flusher draining, the backend holds the written bytes.
C5_FlushWriteback == FlushedAll => BackendHolds(1)

\* C5 (flush writeback, cow = true). When the Phys was created with cow = true,
\* after writes, a flush_all and the flusher draining, the backend holds the
\* written bytes at their offsets, a straddling write included.
C5_FlushWritebackCow == (FlushedAll /\ phys[1].cow) => BackendHolds(1)

\* A straddling write has been flushed to the backend of a cow Phys.
C5_Witness ==
    /\ FlushedAll /\ phys[1].cow /\ BackendHolds(1)
    /\ wrote[1][PAGE_SIZE - 1] # None /\ wrote[1][PAGE_SIZE] # None
    /\ wrote[1][0] = None

\* ----------------------------------------------------------------- SpecPin
\* P = Phys::new(backend, 0, cow = true) or Phys::new_anon(true); one task
\* commits page 0 of P and of its clones (reading or writing, pinning or not),
\* clones, and flushes (unpinning or not), one call after another, while the
\* flusher task runs.
PinInit == \E root \in {Phys_new(0, TRUE), Phys_new_anon(TRUE)} :
              InitWith(root, {<<>>, <<1, 2>>}, FALSE)

PinCommit == \E p \in Leaves, write \in {None, 1}, pin \in BOOLEAN :
                AllIdle /\ commit(1, p, 0, write, pin)
PinClone == \E p \in Leaves, cow \in BOOLEAN : AllIdle /\ Uncloned /\ clone_as(p, cow, 0, None)
PinFlush == \E p \in Leaves, unpin \in BOOLEAN : AllIdle /\ flush(1, p, 0, None, unpin)

PinNext ==
    \/ PinCommit
    \/ PinClone
    \/ PinFlush
    \/ commit_self_get(1)
    \/ commit_parent(1)
    \/ commit_read(1)
    \/ commit_install(1)
    \/ commit_new(1)
    \/ commit_unique(1)
    \/ flush_get(1)
    \/ flush_send(1)
    \/ flush_parent(1)
    \/ flusher_recv
    \/ flusher_write
    \/ flusher_flush

SpecPin == PinInit /\ [][PinNext]_vars

\* Task t's last call was a commit that returned a frame for a page it holds
\* pinned.
PinnedCommitDone(t) ==
    /\ ~task[t].busy /\ task[t].op = "commit" /\ task[t].res.status = "ok"
    /\ task[t].held.frame # None
    /\ task[t].held.phys = task[t].phys /\ task[t].held.index = task[t].index

AnonInit == \E cow \in BOOLEAN : InitWith(Phys_new_anon(cow), {<<>>}, FALSE)

SparseOff == MaxIdx * PAGE_SIZE + PAGE_SIZE - 1

AnonRead == \E off \in 0..PAGE_SIZE, n \in 1..(MaxOff + 1) :
               AllIdle /\ off + n <= MaxOff + 1 /\ read_at(1, 1, off, n)
AnonWrite == \E b \in 1..MaxByte : AllIdle /\ write_at(1, 1, SparseOff, <<b>>)

AnonNext ==
    \/ AnonRead
    \/ AnonWrite
    \/ commit_self_get(1)
    \/ commit_parent(1)
    \/ commit_new(1)
    \/ read_at_copy(1)
    \/ write_at_copy(1)

SpecAnon == AnonInit /\ [][AnonNext]_vars

\* Task t's last call was a read_at of the anonymous Phys p, and it is over.
AnonReadOver(t, p) ==
    /\ ~task[t].busy /\ task[t].op = "read_at" /\ task[t].phys = p
    /\ phys[p].kind = "leaf" /\ phys[p].parent.kind = "None"

\* C7 (read before write). A read_at(o, n) of an anonymous Phys nothing was
\* written to returns n bytes, all zero.
C7_ReadBeforeWrite ==
    \A t \in Tasks, p \in PhysIds :
        (AnonReadOver(t, p) /\ \A o \in Offs : wrote[p][o] = None)
            => /\ task[t].res.status = "ok"
               /\ task[t].res.data = [k \in 1..task[t].n |-> 0]

\* C8 (sparse read). A read_at of an anonymous Phys that starts in page 0 and
\* reaches the one byte written, in page MaxIdx, returns every byte asked for:
\* zeros for the pages never written, the written byte at its place.
C8_SparseRead ==
    \A t \in Tasks, p \in PhysIds :
        (/\ AnonReadOver(t, p)
         /\ wrote[p][SparseOff] # None
         /\ task[t].off + task[t].n > SparseOff)
            => /\ task[t].res.status = "ok"
               /\ task[t].res.data =
                    [k \in 1..task[t].n |->
                        IF wrote[p][task[t].off + k - 1] # None
                        THEN wrote[p][task[t].off + k - 1] ELSE 0]

\* -------------------------------------------------------------- SpecWindow
\* P = Phys::new(backend, 0, cow = true) over a backend of three pages; P may
\* write a byte of page 1 or of page PAGE_SIZE, then Q = P.clone_as(true, o,
\* Some(1)) with o = 1 or o = PAGE_SIZE; after that one task reads Q's first
\* two pages and writes bytes of Q's page 1, one call after another.
WindowBackend == <<1, 2, 2, 1, 1, 1>>
WindowInit == InitWith(Phys_new(0, TRUE), {WindowBackend}, FALSE)

Cloned == Leaves # {1}
WindowPWrite == \E off \in {PAGE_SIZE, PAGE_SIZE * PAGE_SIZE} :
                   AllIdle /\ ~Cloned /\ write_at(1, 1, off, <<MaxByte>>)
WindowClone == \E o \in {1, PAGE_SIZE} : AllIdle /\ Uncloned /\ clone_as(1, TRUE, o, 1)
WindowRead == \E q \in Leaves \ {1}, off \in 0..(2 * PAGE_SIZE - 1), n \in {1, PAGE_SIZE} :
                 AllIdle /\ read_at(1, q, off, n)
WindowWrite == \E q \in Leaves \ {1}, off \in PAGE_SIZE..(2 * PAGE_SIZE - 1), b \in 1..MaxByte :
                  AllIdle /\ write_at(1, q, off, <<b>>)

WindowNext ==
    \/ WindowPWrite
    \/ WindowClone
    \/ WindowRead
    \/ WindowWrite
    \/ commit_self_get(1)
    \/ commit_parent(1)
    \/ commit_read(1)
    \/ commit_install(1)
    \/ commit_new(1)
    \/ read_at_copy(1)
    \/ write_at_copy(1)

SpecWindow == WindowInit /\ [][WindowNext]_vars

\* Q is a leaf cloned with a fixed page count.
IsWindow(q) ==
    phys[q].kind = "leaf" /\ phys[q].parent.kind = "Phys" /\ phys[q].parent.end # None

\* The frames the page table of Phys p holds, with their bytes and lengths.
Pages(p) == [i \in Idx |-> [fi |-> phys[p].frames[i], bytes |-> mem[phys[p].frames[i].frame]]]

\* What one step may do when Q's page 0 shows P's bytes from byte offset
\* base(Q) on: a read_at of Q that returns gives, inside the window, P's bytes
\* from base(Q) on and, outside, Q's own bytes or zeros; a write_at of Q (all
\* are outside the window here) changes no page of P or of the branch, and
\* when it returns the page is in Q's own page table.
WindowStep(stated) ==
    \A t \in Tasks :
        LET q == task[t].phys
            par == phys[q].parent
            base == IF stated THEN PAGE_SIZE ELSE par.start * PAGE_SIZE
            count == par.end - par.start
            after == task'[t]
        IN (task[t].busy /\ IsWindow(q) /\ (stated => par.start = PAGE_SIZE)) =>
            /\ (~after.busy /\ after.op = "read_at" /\ after.res.status = "ok") =>
                  \A k \in 1..Len(after.res.data) :
                      LET o == after.off + k - 1 IN
                      after.res.data[k] =
                          IF o < count * PAGE_SIZE THEN Expect(1, o + base)
                          ELSE IF wrote[q][o] # None THEN wrote[q][o] ELSE 0
            /\ task[t].op = "write_at" =>
                  /\ Pages(1)' = Pages(1)
                  /\ Pages(par.phys)' = Pages(par.phys)
            /\ (~after.busy /\ after.op = "write_at" /\ after.res.status = "ok") =>
                  Occupied(phys'[q].frames[after.off \div PAGE_SIZE])

SnapInit == \E cow \in BOOLEAN : InitWith(Phys_new(0, cow), {<<>>, <<1, 2>>}, FALSE)

SnapWrite == \E off \in 0..(PAGE_SIZE - 1), b \in 1..MaxByte :
                AllIdle /\ write_at(1, 1, off, <<b>>)
SnapClone == \E qcow \in BOOLEAN : AllIdle /\ Uncloned /\ clone_as(1, qcow, 0, None)
SnapRead == \E q \in Leaves \ {1}, off \in 0..(PAGE_SIZE - 1) :
               AllIdle /\ read_at(1, q, off, 1)

SnapNext ==
    \/ SnapWrite
    \/ SnapClone
    \/ SnapRead
    \/ commit_self_get(1)
    \/ commit_parent(1)
    \/ commit_read(1)
    \/ commit_install(1)
    \/ commit_unique(1)
    \/ read_at_copy(1)
    \/ write_at_copy(1)

SpecSnap == SnapInit /\ [][SnapNext]_vars

\* Every byte the last read of the clone q returned is the byte P held at that
\* offset when q was cloned.
SnapshotRead(q) ==
    ReadDone(1, q) =>
        \A k \in 1..Len(task[1].res.data) :
            task[1].res.data[k] = Expect(q, task[1].off + k - 1)

\* C11 as stated (frozen snapshot, P cow or not). Whatever is written through P
\* after the clone, Q reads the bytes P held at the clone.
C11_FrozenSnapshot == \A q \in Leaves \ {1} : SnapshotRead(q)

\* C11 (frozen snapshot, P cow). When P is cow, whatever is written through P
\* after the clone, Q reads the bytes P held at the clone.
C11_FrozenSnapshotCow == phys[1].cow => \A q \in Leaves \ {1} : SnapshotRead(q)

\* P is cow, byte 0 was written through P before the clone and again, with
\* another value, after it, and a read of Q has returned the earlier byte.
C11_Witness ==
    \E q \in Leaves \ {1} :
        /\ phys[1].cow
        /\ wrote[1][0] # None /\ wrote[q][0] # None /\ wrote[1][0] # wrote[q][0]
        /\ ReadDone(1, q) /\ task[1].off = 0 /\ task[1].res.data = <<wrote[q][0]>>

\* --------------------------------------------------------------- SpecFetch
\* A fresh P = Phys::new(backend, 0, cow = true); every task calls
\* commit(0, None, false), as often as it likes, and the critical sections and
\* backend reads of the tasks interleave freely.
FetchInit == InitWith(Phys_new(0, TRUE), {<<>>, <<1>>, <<1, 2>>}, FALSE)

FetchCommit == \E t \in Tasks : commit(t, 1, 0, None, FALSE)

FetchNext ==
    \/ FetchCommit
    \/ \E t \in Tasks : commit_self_get(t)
    \/ \E t \in Tasks : commit_parent(t)
    \/ \E t \in Tasks : commit_read(t)
    \/ \E t \in Tasks : commit_install(t)

SpecFetch == FetchInit /\ [][FetchNext]_vars

\* Task t has allocated a frame for the page and is reading it from the backend
\* (or has read it and is about to install it): it has issued a page fetch.
Fetching(t) ==
    /\ task[t].busy /\ task[t].op = "commit" /\ task[t].stack # <<>>
    /\ Top(t).pc \in {"read", "install"}

\* C12 (backend fetch bound). Of the N tasks that commit page 0 of a fresh
\* backend-backed Phys concurrently, fewer than N fetch the page from the
\* backend.
C12_FetchBound == Cardinality({t \in Tasks : Fetching(t)}) < Cardinality(Tasks)

\* ---------------------------------------------------------------- SpecSeek
\* P = Phys::new(backend, 0, cow = true); one task writes single bytes, seeks
\* and calls flush_all, one call after another, while the flusher task runs.
SeekInit == InitWith(Phys_new(0, TRUE), {<<>>, <<1, 2>>}, FALSE)

SeekWrite == \E off \in {0, PAGE_SIZE + 1} :
                AllIdle /\ write_at(1, 1, off, <<1>>)
SeekCall == \E whence \in {"Start", "Current", "End"}, pos \in -1..1 :
               AllIdle /\ (whence = "End" => pos <= 0) /\ seek(1, 1, whence, pos)
SeekFlush == AllIdle /\ flush_all(1, 1)

SeekNext ==
    \/ SeekWrite
    \/ SeekCall
    \/ SeekFlush
    \/ seek_len(1)
    \/ commit_self_get(1)
    \/ commit_parent(1)
    \/ commit_read(1)
    \/ commit_install(1)
    \/ write_at_copy(1)
    \/ flush_all_get(1)
    \/ flush_all_send(1)
    \/ flush_parent(1)
    \/ flusher_recv
    \/ flusher_write
    \/ flusher_flush

SpecSeek == SeekInit /\ [][SeekNext]_vars

\* The high-water mark of Phys p: one past the largest byte offset written
\* through it, or 0.
RECURSIVE HighWater(_, _)
HighWater(p, o) ==
    IF o < 0 THEN 0
    ELSE IF wrote[p][o] # None THEN o + 1 ELSE HighWater(p, o - 1)

\* C16 (seek to end). When bytes have been written beyond the backend's
\* length, a seek(End(0)) that returns, returns the high-water mark of the
\* writes.
C16_SeekEnd ==
    \A t \in Tasks :
        (/\ ~task[t].busy /\ task[t].op = "seek" /\ task[t].whence = "End"
         /\ task[t].off = 0 /\ task[t].res.status = "ok"
         /\ HighWater(task[t].phys, MaxOff) > Len(backend))
            => task[t].res.len = HighWater(task[t].phys, MaxOff)

\* ---------------------------------------------------------------- SpecLock
\* P = Phys::new(backend, 0, cow = true), cloned at most once. Task 1 reads
\* and writes byte 0 of the leaves; task 2 flushes, flushes all and seeks
\* to the end; the flusher task runs. The steps of the three interleave freely.
LockInit == InitWith(Phys_new(0, TRUE), {<<1, 2>>}, FALSE)

LockRead == \E p \in Leaves : read_at(1, p, 0, 1)
LockWrite == \E p \in Leaves : write_at(1, p, 0, <<1>>)
LockClone == Uncloned /\ clone_as(1, TRUE, 0, None)
LockFlush == \E p \in Leaves : flush(2, p, 0, None, FALSE)
LockFlushAll == \E p \in Leaves : flush_all(2, p)
LockSeek == seek(2, 1, "End", 0)

LockNext ==
    \/ LockRead
    \/ LockWrite
    \/ LockClone
    \/ LockFlush
    \/ LockFlushAll
    \/ LockSeek
    \/ commit_self_get(1)
    \/ commit_parent(1)
    \/ commit_read(1)
    \/ commit_install(1)
    \/ commit_unique(1)
    \/ read_at_copy(1)
    \/ write_at_copy(1)
    \/ flush_get(2)
    \/ flush_send(2)
    \/ flush_parent(2)
    \/ flush_all_get(2)
    \/ flush_all_send(2)
    \/ seek_len(2)
    \/ flusher_recv
    \/ flusher_write
    \/ flusher_flush

SpecLock == LockInit /\ [][LockNext]_vars

\* Task t is suspended: in a backend read, in the recursive commit_impl of a
\* parent, in a channel send, or in the parent's stream_len.
AtAwait(t) ==
    /\ task[t].busy
    /\ \/ \E k \in 1..Len(task[t].stack) : task[t].stack[k].pc \in {"read", "await"}
       \/ task[t].fpc \in {"send", "stream_len"}

CancelInit == InitWith(Phys_new(0, TRUE), {<<>>, <<1, 2>>}, TRUE)

CancelCommit == \E p \in Leaves, write \in {None} \cup 1..PAGE_SIZE, pin \in BOOLEAN :
                   AllIdle /\ commit(1, p, 0, write, pin)
CancelClone == \E cow \in BOOLEAN : AllIdle /\ Uncloned /\ clone_as(1, cow, 0, None)

CancelNext ==
    \/ CancelCommit
    \/ CancelClone
    \/ cancel(1)
    \/ commit_self_get(1)
    \/ commit_parent(1)
    \/ commit_read(1)
    \/ commit_install(1)
    \/ commit_unique(1)

SpecCancel == CancelInit /\ [][CancelNext]_vars

\* C14 (cancellation). When a commit was dropped while suspended, every page
\* table is what the commit found when it was called.
C14_CancelLeavesTables ==
    \A t \in Tasks :
        (~task[t].busy /\ task[t].res.status = "cancelled")
            => \A p \in PhysIds : phys[p].frames = task[t].before[p]

\* A pinning write commit through a leaf was dropped while the branch, whose
\* page table does not hold the page, was reading it from the backend.
C14_Witness ==
    /\ ~task[1].busy /\ task[1].res.status = "cancelled"
    /\ task[1].write # None /\ task[1].pin
    /\ phys[task[1].phys].parent.kind = "Phys"
    /\ \A p \in PhysIds : phys[p].frames[0].st = "Vacant"

\* ------------------------------------------------------------- SpecBackend
\* P = Phys::new(backend, 0, cow) over a backend of 0 to MaxBackend bytes, never
\* written and never cloned; one task reads any range of P, one call after
\* another; the backend may answer a read with fewer bytes than it has.
MaxBackend == 5
BackendBytes == <<1, 2, 2, 1, 2>>
BackendInit ==
    \E cow \in BOOLEAN :
        InitWith(Phys_new(0, cow),
                 {SubSeq(BackendBytes, 1, L) : L \in 0..MaxBackend}, FALSE)

BackendRead == \E off \in Offs, n \in 0..(MaxOff + 1) :
                  AllIdle /\ off + n <= MaxOff + 1 /\ read_at(1, 1, off, n)

BackendNext ==
    \/ BackendRead
    \/ commit_self_get(1)
    \/ commit_parent(1)
    \/ commit_read(1)
    \/ commit_install(1)
    \/ read_at_copy(1)

SpecBackend == BackendInit /\ [][BackendNext]_vars

\* The bytes the backend has for page index.
Supplied(index) == Min(PAGE_SIZE, Max(0, Len(backend) - index * PAGE_SIZE))

\* C15 (backend read). A read_at(o, n) of the unwritten P with o within the
\* backend's length L returns min(n, L - o) bytes, the backend's from o on; and
\* every page P fetched holds, with as valid_len, the bytes the backend has for it.
C15_BackendRead ==
    /\ (/\ ~task[1].busy /\ task[1].op = "read_at"
        /\ task[1].off <= Len(backend))
          => /\ task[1].res.status = "ok"
             /\ task[1].res.data =
                  [k \in 1..Min(task[1].n, Len(backend) - task[1].off) |->
                      backend[task[1].off + k]]
    /\ \A i \in Idx :
          phys[1].frames[i].st # "Vacant"
             => /\ phys[1].frames[i].st = "Shared"
                /\ phys[1].frames[i].len = Supplied(i)
                /\ \A k \in 1..Supplied(i) :
                      mem[phys[1].frames[i].frame][k] = backend[i * PAGE_SIZE + k]

\* A read_at(0, 2 * PAGE_SIZE) of a backend that ends inside the second page is
\* over: it returned the PAGE_SIZE + 1 bytes there are, and the second page
\* records one valid byte.
C15_Witness ==
    /\ ~task[1].busy /\ task[1].op = "read_at" /\ task[1].res.status = "ok"
    /\ task[1].off = 0 /\ task[1].n = 2 * PAGE_SIZE
    /\ Len(backend) = PAGE_SIZE + 1
    /\ Len(task[1].res.data) = PAGE_SIZE + 1
    /\ phys[1].frames[1].st = "Shared" /\ phys[1].frames[1].len = 1

\* ------------------------------------------------------------ SpecBestEffort
\* P = Phys::new(backend, 0, cow) or Phys::new_anon(cow), cloned at most once;
\* one task writes the first byte of the leaves, flushes their pages 0 and 1
\* with any force_dirty and unpin, and flushes them whole, one call
\* after another; Frame::new and the backend may fail, and the flusher may be
\* dropped at any time.
BestEffortInit ==
    \E cow \in BOOLEAN, anon \in BOOLEAN :
        InitWith(IF anon THEN Phys_new_anon(cow) ELSE Phys_new(0, cow),
                 {<<1, 2>>}, TRUE)

BestEffortWrite == \E p \in Leaves : AllIdle /\ write_at(1, p, 0, <<1>>)
BestEffortClone == \E cow \in BOOLEAN : AllIdle /\ Uncloned /\ clone_as(1, cow, 0, None)
BestEffortFlush == \E p \in Leaves, index \in 0..1, force \in {None, 0, 1},
                      unpin \in BOOLEAN : AllIdle /\ flush(1, p, index, force, unpin)
BestEffortFlushAll == \E p \in Leaves : AllIdle /\ flush_all(1, p)

BestEffortNext ==
    \/ BestEffortWrite
    \/ BestEffortClone
    \/ BestEffortFlush
    \/ BestEffortFlushAll
    \/ commit_self_get(1)
    \/ commit_parent(1)
    \/ commit_read(1)
    \/ commit_install(1)
    \/ commit_new(1)
    \/ commit_unique(1)
    \/ write_at_copy(1)
    \/ flush_get(1)
    \/ flush_send(1)
    \/ flush_parent(1)
    \/ flush_all_get(1)
    \/ flush_all_send(1)
    \/ flusher_recv
    \/ flusher_write
    \/ flusher_flush
    \/ flusher_drop

SpecBestEffort == BestEffortInit /\ [][BestEffortNext]_vars

\* C17 (flush is best-effort). Every flush and flush_all that is over returned
\* Ok(()): with the channel closed, without a flusher, without a page.
C17_FlushOk ==
    \A t \in Tasks :
        (~task[t].busy /\ task[t].op \in {"flush", "flush_all"})
            => task[t].res.status = "ok"

\* A flush_all of a Phys with a flusher whose channel is closed is over.
C17_Witness ==
    /\ ~task[1].busy /\ task[1].op = "flush_all" /\ task[1].res.status = "ok"
    /\ phys[task[1].phys].flusher.some
    /\ chan.closed

\* ---------------------------------------------------------------- SpecLeaf
\* P = Phys::new(backend, 0, cow) or Phys::new_anon(cow); any leaf is cloned,
\* cow or not, up to twice, which gives chains of one and two branches; one
\* task commits page 0 of the leaves for reading and writing, one call after
\* another. The
\* handles callers hold are the ones the constructors and clone_as returned:
\* the leaves.
LeafInit ==
    \E cow \in BOOLEAN, anon \in BOOLEAN :
        InitWith(IF anon THEN Phys_new_anon(cow) ELSE Phys_new(0, cow), {<<1, 2>>}, FALSE)

LeafCommit == \E p \in Leaves, write \in {None, 1} :
                 AllIdle /\ commit(1, p, 0, write, FALSE)
LeafClone == \E p \in Leaves, cow \in BOOLEAN : AllIdle /\ clone_as(p, cow, 0, None)

LeafNext ==
    \/ LeafCommit
    \/ LeafClone
    \/ commit_self_get(1)
    \/ commit_parent(1)
    \/ commit_read(1)
    \/ commit_install(1)
    \/ commit_new(1)
    \/ commit_unique(1)

SpecLeaf == LeafInit /\ [][LeafNext]_vars

\* C18 (leaf contract). No commit ends in unreachable!(): every commit that is
\* over returned the frame of a Commit::Shared or an error; and every Phys a
\* commit was called on is a leaf (assert!(!self.branch) holds).
C18_LeafShared ==
    \A t \in Tasks :
        /\ (~task[t].busy /\ task[t].op = "commit")
              => task[t].res.status \in {"ok", "err"}
        /\ (task[t].busy /\ task[t].op = "commit") => phys[task[t].phys].kind = "leaf"

\* A write commit through a cow leaf two branches away from the backend is
\* over, and the branch next to the leaf keeps the page it forked (Unique).
C18_Witness ==
    \E t \in Tasks :
        /\ ~task[t].busy /\ task[t].op = "commit" /\ task[t].write # None
        /\ task[t].res.status = "ok"
        /\ LET par == phys[task[t].phys].parent IN
           /\ par.kind = "Phys"
           /\ phys[par.phys].parent.kind = "Phys"
           /\ phys[par.phys].frames[0].st = "Unique"

\* ---------------------------------------------------------------- SpecZero
\* P = Phys::new(backend, 0, cow) over an empty or a one-byte backend, or
\* Phys::new_anon(cow), cloned, cow or not, at most once; one task
\* reads and writes the first byte of the leaves and commits their page 1 (which
\* nothing backs) for reading and writing, one call after another.
ZeroInit ==
    \E cow \in BOOLEAN, anon \in BOOLEAN :
        InitWith(IF anon THEN Phys_new_anon(cow) ELSE Phys_new(0, cow),
                 {<<>>, <<1>>}, FALSE)

ZeroRead == \E p \in Leaves : AllIdle /\ read_at(1, p, 0, 1)
ZeroWrite == \E p \in Leaves : AllIdle /\ write_at(1, p, 0, <<1>>)
ZeroCommit == \E p \in Leaves, write \in {None, 1} :
                 AllIdle /\ commit(1, p, 1, write, FALSE)
ZeroClone == \E cow \in BOOLEAN : AllIdle /\ Uncloned /\ clone_as(1, cow, 0, None)

ZeroNext ==
    \/ ZeroRead
    \/ ZeroWrite
    \/ ZeroCommit
    \/ ZeroClone
    \/ commit_self_get(1)
    \/ commit_parent(1)
    \/ commit_read(1)
    \/ commit_install(1)
    \/ commit_new(1)
    \/ commit_unique(1)
    \/ read_at_copy(1)
    \/ write_at_copy(1)

SpecZero == ZeroInit /\ [][ZeroNext]_vars

\* C19 (the ZERO frame). The canonical zero frame holds zeros; no commit for
\* writing returned it, to write_at or to the caller of commit; and no page
\* table holds it.
C19_ZeroNeverWritten ==
    /\ mem[ZERO] = Zeros
    /\ \A t \in Tasks :
          /\ (task[t].busy /\ task[t].write # None /\ task[t].ret.tag = "Shared")
                => task[t].ret.frame # ZERO
          /\ (~task[t].busy /\ task[t].op = "commit" /\ task[t].write # None
              /\ task[t].res.status = "ok") => task[t].res.frame # ZERO
    /\ \A p \in PhysIds, i \in Idx :
          Occupied(phys[p].frames[i]) => phys[p].frames[i].frame # ZERO

\* A write commit of a page nothing backed, which a read commit of the same Phys
\* answers with the ZERO frame, is over and returned a frame of its own.
C19_Witness ==
    /\ ~task[1].busy /\ task[1].op = "commit" /\ task[1].write # None
    /\ task[1].res.status = "ok" /\ task[1].res.frame # ZERO
    /\ phys[task[1].phys].frames[1].st = "Shared"
    /\ phys[task[1].phys].frames[1].frame = task[1].res.frame
    /\ \A q \in PhysIds : q # task[1].phys => phys[q].frames[1].st = "Vacant"

\* ----------------------------------------------------------------- SpecOom
\* P = Phys::new(backend, 0, cow) or Phys::new_anon(cow) right after boot: ZERO
\* was never used. P is cloned, cow or not, at most once; one task reads and
\* writes the first byte of the leaves and commits their page 1 for reading and
\* writing, one call after another, while Frame::new may fail at any call.
OomInit ==
    \E cow \in BOOLEAN, anon \in BOOLEAN :
        /\ phys = [p \in PhysIds |->
                     IF p = 1 THEN (IF anon THEN Phys_new_anon(cow) ELSE Phys_new(0, cow))
                     ELSE FreePhys]
        /\ mem = [f \in FrameIds |-> IF f = ZERO THEN <<>> ELSE Zeros]
        /\ backend = <<1>>
        /\ chan = [q |-> <<>>, closed |-> FALSE]
        /\ fl = [pc |-> "recv", items |-> <<>>]
        /\ task = [t \in Tasks |-> IdleTask]
        /\ faults = TRUE
        /\ wrote = [p \in PhysIds |-> [o \in Offs |-> None]]
        /\ sigset = SigSet_new(0)
        /\ fat = Fat_new(NoFat)

OomRead == \E p \in Leaves : AllIdle /\ read_at(1, p, 0, 1)
OomWrite == \E p \in Leaves : AllIdle /\ write_at(1, p, 0, <<1>>)
OomCommit == \E p \in Leaves, write \in {None, 1} :
                AllIdle /\ commit(1, p, 1, write, FALSE)
OomClone == \E cow \in BOOLEAN : AllIdle /\ Uncloned /\ clone_as(1, cow, 0, None)

OomNext ==
    \/ OomRead
    \/ OomWrite
    \/ OomCommit
    \/ OomClone
    \/ commit_self_get(1)
    \/ commit_parent(1)
    \/ commit_read(1)
    \/ commit_install(1)
    \/ commit_new(1)
    \/ commit_unique(1)
    \/ read_at_copy(1)
    \/ write_at_copy(1)

SpecOom == OomInit /\ [][OomNext]_vars

\* C20 (out-of-memory propagation). A Frame::new that failed inside a commit,
\* read_at or write_at reaches the caller as the error ENOMEM: no call ends in
\* a panic over it.
C20_OomPropagates ==
    \A t \in Tasks :
        (~task[t].busy /\ task[t].op \in {"commit", "read_at", "write_at"}
         /\ task[t].res.err = ENOMEM)
            => task[t].res.status = "err"

\* --------------------------------------------------------------- SpecGraph
\* P = Phys::new(backend, 0, cow) or Phys::new_anon(cow); further anonymous
\* Phys are constructed, any leaf is cloned with any cow flag at page offset 0
\* or 1, and any leaf is dropped, in any order.
GraphInit ==
    \E cow \in BOOLEAN, anon \in BOOLEAN :
        InitWith(IF anon THEN Phys_new_anon(cow) ELSE Phys_new(0, cow), {<<1, 2>>}, FALSE)

GraphNew == new_anon(TRUE)
GraphClone == \E p \in Leaves, cow \in BOOLEAN, o \in 0..1 : clone_as(p, cow, o, None)
GraphDrop == \E p \in Leaves : drop(p)

GraphNext ==
    \/ GraphNew
    \/ GraphClone
    \/ GraphDrop

SpecGraph == GraphInit /\ [][GraphNext]_vars

\* Following the parent links from Phys p ends at a Backend or at None within
\* fuel steps, through live branches only.
RECURSIVE ChainEnds(_, _)
ChainEnds(p, fuel) ==
    \/ phys[p].parent.kind # "Phys"
    \/ /\ fuel > 0
       /\ phys[phys[p].parent.phys].kind = "branch"
       /\ ChainEnds(phys[p].parent.phys, fuel - 1)

\* The Phys reached from p by one or more parent links, within fuel steps.
RECURSIVE Ancestors(_, _)
Ancestors(p, fuel) ==
    IF fuel = 0 \/ phys[p].parent.kind # "Phys" THEN {}
    ELSE {phys[p].parent.phys} \cup Ancestors(phys[p].parent.phys, fuel - 1)

\* C21 (no cycle). From every Phys the parent links end at a Backend or at None
\* in fewer steps than there are Phys, and no Phys is an ancestor of itself.
C21_NoCycle ==
    \A p \in PhysIds :
        phys[p].kind # "free"
            => /\ ChainEnds(p, MaxPhys - 1)
               /\ p \notin Ancestors(p, MaxPhys)

\* Two clones deep: a leaf whose parent branch has a parent branch, after a
\* leaf was dropped (a Phys id is free again below a live one).
C21_Witness ==
    \E p \in PhysIds :
        /\ phys[p].kind = "leaf" /\ phys[p].parent.kind = "Phys"
        /\ phys[phys[p].parent.phys].parent.kind = "Phys"
        /\ \E q \in PhysIds : q < p /\ phys[q].kind = "free"

\* ---------------------------------------------------------------- SpecDrop
\* P = Phys::new(backend, 0, cow = true); any leaf is cloned, cow or not, and
\* any leaf is dropped; one task writes the first byte of the leaves, one call
\* after another; the flusher task is not scheduled, and may be dropped at any
\* time.
DropInit == InitWith(Phys_new(0, TRUE), {<<1, 2>>}, FALSE)

DropWrite == \E p \in Leaves : AllIdle /\ write_at(1, p, 0, <<1>>)
DropClone == \E p \in Leaves, cow \in BOOLEAN : AllIdle /\ clone_as(p, cow, 0, None)
DropLeaf == \E p \in Leaves : AllIdle /\ drop(p)

DropNext ==
    \/ DropWrite
    \/ DropClone
    \/ DropLeaf
    \/ commit_self_get(1)
    \/ commit_parent(1)
    \/ commit_read(1)
    \/ commit_install(1)
    \/ commit_unique(1)
    \/ write_at_copy(1)
    \/ flusher_drop

SpecDrop == DropInit /\ [][DropNext]_vars

\* The flush items a step put on the channel.
Enqueued ==
    UNION {{chan'.q[k].items[j] : j \in 1..Len(chan'.q[k].items)} :
              k \in (Len(chan.q) + 1)..Len(chan'.q)}

\* Phys b went away in the step.
Released(b) == phys[b].kind # "free" /\ phys'[b].kind = "free"

\* What the drop of leaf p did in a step: with a flusher and the channel open,
\* one message per Phys that went away, holding the dirty pages of each (those of
\* p at index + flusher.offset, those of its parent branch at the parent's index
\* + flusher.offset - start); otherwise nothing; and every branch that a Phys
\* still refers to is as it was.
DropStep(p) ==
    LET off == phys[p].flusher.offset
        par == phys[p].parent
        dirty(b) == {i \in Idx : phys[b].frames[i].dirty /\ Occupied(phys[b].frames[i])}
        item(b, i, o) == FlushItem(i + o, phys[b].frames[i].frame, phys[b].frames[i].len)
    IN /\ IF phys[p].flusher.some /\ ~chan.closed
          THEN /\ Len(chan'.q) = Len(chan.q) + Cardinality({b \in PhysIds : Released(b)})
               /\ \A i \in dirty(p) : item(p, i, off) \in Enqueued
               /\ (par.kind = "Phys" /\ Released(par.phys))
                     => \A i \in dirty(par.phys) :
                           item(par.phys, i, off - par.start) \in Enqueued
               /\ \A b \in PhysIds : Released(b) =>
                     \A i \in dirty(b) :
                        \E it \in Enqueued : it.frame = phys[b].frames[i].frame
               /\ \A it \in Enqueued :
                     \E b \in PhysIds : Released(b) /\
                        \E i \in dirty(b) : it.frame = phys[b].frames[i].frame
          ELSE chan' = chan
       /\ \A b \in PhysIds :
             (\E q \in PhysIds : phys'[q].kind # "free" /\ phys'[q].parent.kind = "Phys"
                                    /\ phys'[q].parent.phys = b)
                => phys'[b] = phys[b]
       /\ \A b \in PhysIds :
             (Released(b) /\ b # p)
                => /\ phys[b].kind = "branch"
                   /\ \A q \in PhysIds \ {b} :
                         (phys[q].kind # "free" /\ phys[q].parent.kind = "Phys"
                          /\ phys[q].parent.phys = b) => Released(q)

\* C22 (drop). The drop of a leaf enqueues, in the one step it takes, the dirty
\* pages of the leaf and of every branch only it referred to, stops at a branch
\* another Phys refers to, and enqueues nothing when the channel is closed.
C22_DropEnqueues ==
    [][\A p \in PhysIds : (phys[p].kind = "leaf" /\ Released(p)) => DropStep(p)]_vars

\* A drop has just put the dirty page of the leaf and the dirty page of the
\* branch it owned on the channel: two messages, one page each, and P is gone.
C22_Witness ==
    /\ Len(chan.q) = 2
    /\ chan.q[1].kind = "Multiple" /\ chan.q[1].items # <<>>
    /\ chan.q[2].kind = "Multiple" /\ chan.q[2].items # <<>>
    /\ \A p \in PhysIds : phys[p].kind = "free"

\* ----------------------------------------------------------------- SpecSig
\* A SigSet made from any word (SigSet::from(u64)); signals are inserted and
\* removed and the set is iterated, in any order.
SigInit ==
    \E raw \in 0..(Pow2(NR_SIGNALS) - 1) :
        /\ InitWith(Phys_new_anon(FALSE), {<<>>}, FALSE)
        /\ sigset = SigSet_new(raw)

SigNext ==
    \/ \E sig \in Sigs : insert(sig)
    \/ \E sig \in Sigs : remove(sig)
    \/ next

SpecSig == SigInit /\ [][SigNext]_vars

\* The signals whose bit is set in the word.
Members(raw) == {sig \in Sigs : Bit(raw, sig - 1) = 1}

\* C23 (SigSet::remove). After remove(sig): it returned true exactly when sig
\* was a member; sig is not a member; every other signal is a member exactly
\* when it was.
C23_Remove ==
    sigset.op = "remove"
        => /\ (sigset.ret = 1) <=> (sigset.arg \in Members(sigset.before))
           /\ sigset.arg \notin Members(sigset.set)
           /\ Members(sigset.set) = Members(sigset.before) \ {sigset.arg}

\* A member was removed from between a lower and a higher member, which stay.
C23_Witness ==
    /\ sigset.op = "remove" /\ sigset.ret = 1
    /\ \E lo, hi \in Members(sigset.set) : lo < sigset.arg /\ sigset.arg < hi

\* C24 (SigSet iteration). What next() returned so far is the start of the
\* ascending list of the members the set had when the iteration began; the
\* members not yet returned are what is left in the set; next() returned None
\* only when every member had been returned.
C24_Iteration ==
    sigset.op = "next"
        => /\ \A k \in 1..Len(sigset.yielded) :
                 /\ sigset.yielded[k] \in Members(sigset.from)
                 /\ \A j \in 1..(k - 1) : sigset.yielded[j] < sigset.yielded[k]
                 /\ \A m \in Members(sigset.from) :
                       m < sigset.yielded[k] => \E j \in 1..(k - 1) : sigset.yielded[j] = m
           /\ Members(sigset.set) =
                 Members(sigset.from) \ {sigset.yielded[k] : k \in 1..Len(sigset.yielded)}
           /\ sigset.ret = None
                 => {sigset.yielded[k] : k \in 1..Len(sigset.yielded)} = Members(sigset.from)
           /\ sigset.ret # None
                 => sigset.yielded[Len(sigset.yielded)] = sigset.ret

\* The iteration of a set of three signals that are not the three lowest is
\* over: three items, then None.
C24_Witness ==
    /\ sigset.op = "next" /\ sigset.ret = None
    /\ Len(sigset.yielded) = 3
    /\ sigset.yielded[1] # 1

\* --------------------------------------------------------------- SpecClimb
\* P = Phys::new(backend, 0, cow = true), cloned once as a cow Phys; either
\* leaf may be dropped, which leaves the branch to the other; one task writes
\* the first byte of the leaves and calls flush(0, None, false) and flush_all
\* on them, one call after another, while the flusher task runs.
ClimbInit == InitWith(Phys_new(0, TRUE), {<<1, 2>>}, FALSE)

ClimbWrite == \E p \in Leaves : AllIdle /\ write_at(1, p, 0, <<1>>)
ClimbClone == AllIdle /\ Uncloned /\ clone_as(1, TRUE, 0, None)
ClimbDrop == \E p \in Leaves : AllIdle /\ drop(p)
ClimbFlush == \E p \in Leaves : AllIdle /\ flush(1, p, 0, None, FALSE)
ClimbFlushAll == \E p \in Leaves : AllIdle /\ flush_all(1, p)

ClimbNext ==
    \/ ClimbWrite
    \/ ClimbClone
    \/ ClimbDrop
    \/ ClimbFlush
    \/ ClimbFlushAll
    \/ commit_self_get(1)
    \/ commit_parent(1)
    \/ commit_read(1)
    \/ commit_install(1)
    \/ commit_unique(1)
    \/ write_at_copy(1)
    \/ flush_get(1)
    \/ flush_send(1)
    \/ flush_parent(1)
    \/ flush_all_get(1)
    \/ flush_all_send(1)
    \/ flusher_recv
    \/ flusher_write
    \/ flusher_flush

SpecClimb == ClimbInit /\ [][ClimbNext]_vars

\* Leaf p is the only Phys whose parent link is branch b.
OnlyChild(p, b) ==
    \A q \in PhysIds \ {p} :
        ~(phys[q].kind # "free" /\ phys[q].parent.kind = "Phys" /\ phys[q].parent.phys = b)

\* C25 (flush chain walk). When a flush_all of a leaf with a flusher returns,
\* or a flush of an index the leaf has no entry for, and the leaf is the only
\* Phys that refers to its parent branch, the walk went into the branch: the
\* branch's pages (for flush: its page for the index) are not dirty any more.
C25_FlushClimbs ==
    [][\A t \in Tasks :
          (task[t].busy /\ task[t].op \in {"flush", "flush_all"} /\ ~task'[t].busy)
             => LET p == task[t].phys
                    par == phys[p].parent
                IN (/\ phys[p].flusher.some
                    /\ par.kind = "Phys"
                    /\ OnlyChild(p, par.phys))
                      => IF task[t].op = "flush_all"
                         THEN \A i \in Idx : ~phys'[par.phys].frames[i].dirty
                         ELSE phys[p].frames[task[t].index].st = "Vacant"
                                 => ~phys'[par.phys].frames[par.start + task[t].index].dirty]_vars

\* ------------------------------------------------------------- SpecBalance
\* P = Phys::new(backend, 0, cow) or Phys::new_anon(cow), cloned, cow or not,
\* at most once; one task commits page 0 of a leaf with pin = true (reading or
\* writing) while no pin is held, and then calls flush(0, None, true) on the
\* same leaf, one call after another, while the flusher task runs.
BalanceInit ==
    \E cow \in BOOLEAN, anon \in BOOLEAN :
        InitWith(IF anon THEN Phys_new_anon(cow) ELSE Phys_new(0, cow), {<<1, 2>>}, FALSE)

BalanceCommit == \E p \in Leaves, write \in {None, 1} :
                    AllIdle /\ commit(1, p, 0, write, TRUE)
BalanceClone == \E cow \in BOOLEAN : AllIdle /\ Uncloned /\ clone_as(1, cow, 0, None)
BalanceFlush ==
    /\ AllIdle
    /\ task[1].op = "commit" /\ task[1].pin /\ task[1].res.status = "ok"
    /\ flush(1, task[1].phys, 0, None, TRUE)

BalanceNext ==
    \/ BalanceCommit
    \/ BalanceClone
    \/ BalanceFlush
    \/ commit_self_get(1)
    \/ commit_parent(1)
    \/ commit_read(1)
    \/ commit_install(1)
    \/ commit_new(1)
    \/ commit_unique(1)
    \/ flush_get(1)
    \/ flush_send(1)
    \/ flush_parent(1)
    \/ flusher_recv
    \/ flusher_write
    \/ flusher_flush

SpecBalance == BalanceInit /\ [][BalanceNext]_vars

\* C26 (balanced pin/unpin). Every pinning commit here starts with no pin held
\* anywhere, so when the flush(0, None, true) that follows it on the same Phys
\* has returned, no page-table entry has a pin left.
C26_PinBalanced ==
    \A t \in Tasks :
        (~task[t].busy /\ task[t].op = "flush") => SumPins(PhysIds \X Idx) = 0

\* C27 (pin accounting of commit). A successful commit with pin = true that
\* returns a frame of the page tables (not ZERO) raises the sum of the pin
\* counts of the entries for that page in the Phys and its parent chain by
\* exactly 1; a successful commit with pin = false leaves the sum as it was,
\* forks and Unique hand-overs included.
C27_PinAccounting ==
    \A t \in Tasks :
        (~task[t].busy /\ task[t].op = "commit" /\ task[t].res.status = "ok"
            /\ phys[task[t].phys].kind = "leaf")
        => ChainPins(task[t].phys, task[t].index, MaxPhys)
             = task[t].pinsum
               + (IF task[t].pin /\ task[t].res.frame # ZERO THEN 1 ELSE 0)

\* C27 as stated: every successful commit with pin = true raises the sum by 1.
C27_PinAccountingStated ==
    \A t \in Tasks :
        (~task[t].busy /\ task[t].op = "commit" /\ task[t].res.status = "ok"
            /\ phys[task[t].phys].kind = "leaf")
        => ChainPins(task[t].phys, task[t].index, MaxPhys)
             = task[t].pinsum + PinN(task[t].pin)

\* A pin = false commit has taken over a pinned Unique branch entry.
C27_Witness ==
    \E t \in Tasks :
        /\ ~task[t].busy /\ task[t].op = "commit" /\ task[t].res.status = "ok"
        /\ ~task[t].pin /\ task[t].pinsum = 1
        /\ phys[task[t].phys].kind = "leaf"
        /\ phys[task[t].phys].frames[task[t].index].pin = 1
        /\ phys[task[t].phys].parent.kind = "Phys"
        /\ phys[phys[task[t].phys].parent.phys].frames[task[t].index].st = "Vacant"

\* --------------------------------------------------------------- SpecDirty
\* P = Phys::new(backend, 0, cow) or Phys::new_anon(cow), cloned, cow or not, at
\* most once; one task commits pages 0 and 1 of the leaves, reading or writing,
\* one call after another. Nothing is flushed.
DirtyInit ==
    \E cow \in BOOLEAN, anon \in BOOLEAN :
        InitWith(IF anon THEN Phys_new_anon(cow) ELSE Phys_new(0, cow), {<<1, 2>>}, FALSE)

DirtyCommit == \E p \in Leaves, index \in 0..1, write \in {None, 1} :
                  AllIdle /\ commit(1, p, index, write, FALSE)
DirtyClone == \E cow \in BOOLEAN : AllIdle /\ Uncloned /\ clone_as(1, cow, 0, None)

DirtyNext ==
    \/ DirtyCommit
    \/ DirtyClone
    \/ commit_self_get(1)
    \/ commit_parent(1)
    \/ commit_read(1)
    \/ commit_install(1)
    \/ commit_new(1)
    \/ commit_unique(1)

SpecDirty == DirtyInit /\ [][DirtyNext]_vars

\* The page-table entries, of any Phys, that hold frame f.
Holders(f) ==
    {qi \in PhysIds \X Idx :
        Occupied(phys[qi[1]].frames[qi[2]]) /\ phys[qi[1]].frames[qi[2]].frame = f}

\* C28 (dirty on write). When a commit with write_len = Some(n) has returned a
\* frame, the page-table entry that holds that frame, in the leaf or in a
\* parent branch, has dirty = true.
C28_DirtyOnWrite ==
    \A t \in Tasks :
        (~task[t].busy /\ task[t].op = "commit" /\ task[t].res.status = "ok"
            /\ task[t].write # None)
        => /\ Holders(task[t].res.frame) # {}
           /\ \A qi \in Holders(task[t].res.frame) : phys[qi[1]].frames[qi[2]].dirty

\* ---------------------------------------------------------------- SpecKeep
\* P = Phys::new(backend, 0, true), cloned cow at most once; one task commits
\* page 0 of the leaves, reading or writing, and calls flush(0, None, false) on
\* them, one call after another, while the flusher task runs.
KeepInit == InitWith(Phys_new(0, TRUE), {<<1, 2>>}, FALSE)

KeepCommit == \E p \in Leaves, write \in {None, 1} :
                 AllIdle /\ commit(1, p, 0, write, FALSE)
KeepClone == AllIdle /\ Uncloned /\ clone_as(1, TRUE, 0, None)
KeepFlush == \E p \in Leaves : AllIdle /\ flush(1, p, 0, None, FALSE)

KeepNext ==
    \/ KeepCommit
    \/ KeepClone
    \/ KeepFlush
    \/ commit_self_get(1)
    \/ commit_parent(1)
    \/ commit_read(1)
    \/ commit_install(1)
    \/ commit_unique(1)
    \/ flush_get(1)
    \/ flush_send(1)
    \/ flush_parent(1)
    \/ flusher_recv
    \/ flusher_write
    \/ flusher_flush

SpecKeep == KeepInit /\ [][KeepNext]_vars

\* The frames of the entries that have dirty = true, in a page table or in a
\* Commit::Unique on its way to the caller's page table.
DirtyFrames ==
    {f \in 1..MaxFrames :
        \/ \E qi \in Holders(f) : phys[qi[1]].frames[qi[2]].dirty
        \/ \E t \in Tasks : /\ task[t].ret.tag = "Unique"
                             /\ task[t].ret.fi.frame = f /\ task[t].ret.fi.dirty}
\* The frames on their way to the flusher: taken by a flush that is about to
\* send them, or in the channel.
Enqueuing ==
    {f \in 1..MaxFrames :
        \/ \E t \in Tasks : \E k \in 1..Len(task[t].items) : task[t].items[k].frame = f
        \/ \E j \in 1..Len(chan.q) : \E k \in 1..Len(chan.q[j].items) :
              chan.q[j].items[k].frame = f}

\* C29 (dirty cleared only by writeback). No step takes the dirty bit away from
\* a frame, wherever clone_as or a Unique hand-over moves it, unless the step
\* hands the page to the flusher.
C29_DirtyKept ==
    [][\A f \in DirtyFrames : f \in DirtyFrames' \/ f \in Enqueuing']_vars

\* -------------------------------------------------------------- SpecAtomic
\* P = Phys::new(backend, 0, true); one task commits pages 0 and 1 of the
\* leaves, reading or writing, while P.clone_as(cow, offset, fixed_count) is
\* called once, at any point of a commit.
AtomicInit == InitWith(Phys_new(0, TRUE), {<<1, 2>>}, FALSE)

AtomicCommit == \E p \in Leaves, index \in 0..1, write \in {None, 1} :
                   commit(1, p, index, write, FALSE)
AtomicClone == \E cow \in BOOLEAN, o \in 0..1, fixed \in {None, 1} :
                  Uncloned /\ clone_as(1, cow, o, fixed)

AtomicNext ==
    \/ AtomicCommit
    \/ AtomicClone
    \/ commit_self_get(1)
    \/ commit_parent(1)
    \/ commit_read(1)
    \/ commit_install(1)
    \/ commit_unique(1)

SpecAtomic == AtomicInit /\ [][AtomicNext]_vars

\* What P.clone_as(cow, offset, fixed_count) has made of P, the branch b and
\* the returned leaf q, against the state before the call.
Cloned3(p, b, q, cow, offset, fixed_count) ==
    /\ phys'[b].kind = "branch"
    /\ phys'[b].parent = phys[p].parent
    /\ phys'[b].frames = phys[p].frames
    /\ phys'[p].kind = "leaf"
    /\ phys'[p].frames = NoFrames
    /\ phys'[p].parent = [kind |-> "Phys", phys |-> b, start |-> 0, end |-> None]
    /\ phys'[q].kind = "leaf"
    /\ phys'[q].frames = NoFrames
    /\ phys'[q].parent = [kind |-> "Phys", phys |-> b, start |-> offset,
                          end |-> IF fixed_count = None THEN None
                                  ELSE offset + fixed_count]
    /\ phys'[q].cow = cow
    /\ \A r \in PhysIds \ {p, b, q} : phys'[r] = phys[r]

\* C30 (clone_as is one atomic step). The step of P.clone_as(cow, offset,
\* fixed_count) leaves, at once, a branch with P's former parent and entries,
\* P with an empty page table and parent {branch, 0, None}, and a new leaf with
\* an empty page table, parent {branch, offset, offset + fixed_count} and the
\* requested cow flag; a commit on P in progress sees the state before or the
\* state after, nothing in between.
C30_CloneAtomic ==
    [][\A cow \in BOOLEAN, o \in 0..1, fixed \in {None, 1} :
          clone_as(1, cow, o, fixed)
          => \E b \in FreeIds : \E q \in FreeIds \ {b} :
                Cloned3(1, b, q, cow, o, fixed)]_vars

\* P was cloned with a window while a commit on P was waiting for the backend:
\* the page it fetched for P's page table is installed after the clone.
C30_Witness ==
    /\ phys[1].parent.kind = "Phys"
    /\ \E q \in Leaves \ {1} : phys[q].parent.start = 1 /\ phys[q].parent.end = 2
    /\ task[1].busy /\ task[1].phys = 1
    /\ Len(task[1].stack) = 1 /\ Top(1).pc = "install"

\* ---------------------------------------------------------------- SpecFork
\* P = Phys::new(backend, 0, true) and its cow clones; one task reads pages and
\* writes bytes through the leaves, one call after another. Frames run out
\* when MaxFrames of them are in use.
ForkInit == InitWith(Phys_new(0, TRUE), {<<1, 2>>}, FALSE)

ForkRead == \E p \in Leaves : AllIdle /\ commit(1, p, 0, None, FALSE)
ForkWrite == \E p \in Leaves, off \in 0..1 : AllIdle /\ write_at(1, p, off, <<2>>)
ForkClone == \E p \in Leaves : AllIdle /\ clone_as(p, TRUE, 0, None)

ForkNext ==
    \/ ForkRead
    \/ ForkWrite
    \/ ForkClone
    \/ commit_self_get(1)
    \/ commit_parent(1)
    \/ commit_read(1)
    \/ commit_install(1)
    \/ commit_unique(1)
    \/ write_at_copy(1)

SpecFork == ForkInit /\ [][ForkNext]_vars

\* Task t is about to look up its page in a branch whose entry is Shared, for
\* a write with cow = true.
AtFork(t) ==
    /\ InCommit(t, "self_get")
    /\ phys[Top(t).phys].kind = "branch"
    /\ phys[Top(t).phys].frames[Top(t).index].st = "Shared"
    /\ task[t].write # None /\ Top(t).cow

\* The step of task t that forks: the branch entry keeps frame f as Unique with
\* the raised length, and the Commit::Unique on its way to the caller holds a
\* frame that was not in use, with f's first bytes and zeros after them.
Forked(t) ==
    LET b == Top(t).phys
        i == Top(t).index
        fi == phys[b].frames[i]
        new_len == Max(fi.len, task[t].write)
        g == task'[t].ret.fi.frame
    IN /\ phys'[b].frames[i].st = "Unique"
       /\ phys'[b].frames[i].frame = fi.frame
       /\ phys'[b].frames[i].len = new_len
       /\ task'[t].ret.tag = "Unique"
       /\ g \in Frames /\ g # fi.frame /\ g \notin LiveFrames
       /\ \A k \in 1..PAGE_SIZE :
             mem'[g][k] = IF k <= new_len THEN mem[fi.frame][k] ELSE 0
       /\ task'[t].ret.fi.len = new_len

\* C31 (cow fork). A write commit with cow = true that finds Shared(f, len) in
\* a branch and gets its frame leaves the branch entry Unique(f, max(len, n))
\* and hands down a distinct new frame with f's first max(len, n) bytes and
\* zeros after them; the child it returns to installs that frame in its page
\* table; and no step changes the bytes of a frame a branch holds as Unique.
C31_CowFork ==
    [][/\ \A t \in Tasks :
            (AtFork(t) /\ task'[t] # task[t] /\ task'[t].ret.tag # "Err") => Forked(t)
       /\ \A t \in Tasks :
            (InCommit(t, "await") /\ task[t].ret.tag = "Unique"
                /\ phys[Top(t).phys].kind = "leaf" /\ task'[t] # task[t])
            => /\ Occupied(phys'[Top(t).phys].frames[Top(t).index])
               /\ phys'[Top(t).phys].frames[Top(t).index].frame = task[t].ret.fi.frame
       /\ \A b \in PhysIds, i \in Idx :
            (phys[b].kind = "branch" /\ phys[b].frames[i].st = "Unique")
            => mem'[phys[b].frames[i].frame] = mem[phys[b].frames[i].frame]]_vars

\* A write through a leaf has forked page 0 and written the copy: the branch
\* holds the old frame as Unique with its old bytes, the leaf the new frame
\* with the written byte.
C31_Witness ==
    \E t \in Tasks, p \in Leaves :
        /\ ~task[t].busy /\ task[t].op = "write_at" /\ task[t].res.status = "ok"
        /\ task[t].phys = p /\ phys[p].parent.kind = "Phys"
        /\ LET b == phys[p].parent.phys IN
           /\ phys[b].frames[0].st = "Unique"
           /\ phys[p].frames[0].st = "Shared"
           /\ phys[p].frames[0].frame # phys[b].frames[0].frame
           /\ mem[phys[b].frames[0].frame] = <<1, 2>>
           /\ mem[phys[p].frames[0].frame] = <<2, 2>>

\* Task t is about to look up its page in a branch whose entry is Unique.
AtUnique(t) ==
    /\ InCommit(t, "self_get")
    /\ phys[Top(t).phys].kind = "branch"
    /\ phys[Top(t).phys].frames[Top(t).index].st = "Unique"

\* Task t is about to install the Commit::Unique it got from the parent.
AtInstall(t) == InCommit(t, "await") /\ task[t].ret.tag = "Unique"

\* C32 (Unique hand-over). A commit, read or write, that finds Unique(f, len)
\* in a branch removes the entry and hands down an entry with frame f, the same
\* valid length and the branch entry's pin count; the child the commit came
\* through installs it (a leaf then resolves the commit on it: a write raises
\* the length to max(len, n), a pin adds 1); and a commit that finds the
\* branch's entry gone goes on to the branch's own parent.
C32_UniqueHandOver ==
    [][\A t \in Tasks :
        /\ (AtUnique(t) /\ task'[t] # task[t])
           => LET b == Top(t).phys
                  fi == phys[b].frames[Top(t).index]
              IN /\ phys'[b].frames[Top(t).index] = Vacant
                 /\ task'[t].ret.tag = "Unique"
                 /\ task'[t].ret.fi.frame = fi.frame
                 /\ task'[t].ret.fi.len = fi.len
                 /\ task'[t].ret.fi.pin = fi.pin
        /\ (AtInstall(t) /\ task'[t] # task[t] /\ phys[Top(t).phys].kind = "leaf")
           => LET fi == task[t].ret.fi
                  ent == phys'[Top(t).phys].frames[Top(t).index]
              IN /\ Occupied(ent)
                 /\ ent.frame = fi.frame
                 /\ ent.len = IF task[t].write = None THEN fi.len
                              ELSE Max(fi.len, task[t].write)
                 /\ ent.pin = fi.pin + PinN(task[t].pin)
        /\ (InCommit(t, "self_get") /\ task'[t] # task[t]
               /\ phys[Top(t).phys].kind = "branch"
               /\ phys[Top(t).phys].frames[Top(t).index].st = "Vacant")
           => /\ phys' = phys
              /\ task'[t].stack # <<>>
              /\ task'[t].stack[Len(task'[t].stack)].pc = "parent"]_vars

\* A read has taken over a pinned Unique entry of the branch: the leaf holds
\* the frame with the pin, and the branch's entry is gone.
C32_Witness ==
    \E t \in Tasks, p \in Leaves :
        /\ ~task[t].busy /\ task[t].op = "commit" /\ task[t].res.status = "ok"
        /\ task[t].phys = p /\ task[t].write = None /\ ~task[t].pin
        /\ phys[p].parent.kind = "Phys"
        /\ phys[phys[p].parent.phys].frames[0].st = "Vacant"
        /\ phys[p].frames[0].st = "Shared" /\ phys[p].frames[0].pin = 1
        /\ phys[p].frames[0].frame = task[t].res.frame
        /\ \E q \in Leaves \ {p} : Occupied(phys[q].frames[0])

\* -------------------------------------------------------------- SpecOffset
\* P = Phys::new(backend, 0, true), a cow clone of it and a cow clone of that
\* clone, at page offsets 0 and 1; one task commits page 0 of the leaves for
\* writing, flushes them and drops leaves,
\* one call after another; what they enqueue stays in the channel.
OffsetInit == InitWith(Phys_new(0, TRUE), {<<1, 2>>}, FALSE)

OffsetWrite == \E p \in Leaves : AllIdle /\ commit(1, p, 0, 1, FALSE)
OffsetClone == \E p \in Leaves, o \in 0..1 :
                  /\ AllIdle /\ \A q \in Leaves : q <= p
                  /\ clone_as(p, TRUE, o, None)
OffsetFlush == \E p \in Leaves : AllIdle /\ flush(1, p, 0, None, FALSE)
OffsetFlushAll == \E p \in Leaves : AllIdle /\ flush_all(1, p)
OffsetDrop == \E p \in Leaves : AllIdle /\ drop(p)

OffsetNext ==
    \/ OffsetWrite
    \/ OffsetClone
    \/ OffsetFlush
    \/ OffsetFlushAll
    \/ OffsetDrop
    \/ commit_self_get(1)
    \/ commit_parent(1)
    \/ commit_read(1)
    \/ commit_install(1)
    \/ commit_unique(1)
    \/ flush_get(1)
    \/ flush_send(1)
    \/ flush_parent(1)
    \/ flush_all_get(1)
    \/ flush_all_send(1)

SpecOffset == OffsetInit /\ [][OffsetNext]_vars

\* The sum of the start values along the parent chain of p: entry j of p's
\* page table is page j + ChainStart(p, _) of the backend.
RECURSIVE ChainStart(_, _)
ChainStart(p, fuel) ==
    IF fuel > 0 /\ phys[p].parent.kind = "Phys"
    THEN phys[p].parent.start + ChainStart(phys[p].parent.phys, fuel - 1)
    ELSE 0

\* Item it carries the backend page index of every page-table entry that holds
\* its frame.
RightIndex(it) ==
    /\ it.index >= 0
    /\ \A qi \in Holders(it.frame) : it.index = qi[2] + ChainStart(qi[1], MaxPhys)

\* The offsets and the items on their way to the backend are right.
OffsetsRight ==
    /\ \A p \in PhysIds :
          (phys[p].kind = "leaf" /\ phys[p].flusher.some)
          => phys[p].flusher.offset = ChainStart(p, MaxPhys)
    /\ \A t \in Tasks :
          /\ (task[t].busy /\ task[t].op \in {"flush", "flush_all"}) => task[t].foff >= 0
          /\ \A k \in 1..Len(task[t].items) : RightIndex(task[t].items[k])
    /\ \A j \in 1..Len(chan.q) : \A k \in 1..Len(chan.q[j].items) :
          RightIndex(chan.q[j].items[k])
    /\ \A k \in 1..Len(fl.items) : RightIndex(fl.items[k])

\* C33 (flusher offset invariant). Every Phys with a flusher has flusher.offset
\* equal to the sum of the start values along its parent chain; every page that
\* flush, flush_all or drop enqueues, at the leaf or at a level they climbed
\* to, carries its backend page index; and no offset goes below zero.
C33_FlusherOffset ==
    [][/\ OffsetsRight'
       /\ \A j \in 1..Len(chan'.q) : \A k \in 1..Len(chan'.q[j].items) :
             LET it == chan'.q[j].items[k] IN
             /\ it.index >= 0
             /\ \A qi \in Holders(it.frame) : it.index = qi[2] + ChainStart(qi[1], MaxPhys)]_vars

\* A leaf two clones deep, whose chain starts add up to 2, was dropped and its
\* dirty page 0 sits in the channel as backend page 2.
C33_Witness ==
    /\ \E p \in PhysIds : phys[p].kind = "leaf" /\ phys[p].flusher.some
                          /\ phys[p].flusher.offset = 1 /\ ChainStart(p, MaxPhys) = 1
    /\ \E j \in 1..Len(chan.q) :
          /\ chan.q[j].kind = "Multiple"
          /\ \E k \in 1..Len(chan.q[j].items) : chan.q[j].items[k].index = 2

\* ---------------------------------------------------------------- SpecPast
\* P = Phys::new(backend, 0, true) over a backend of 0 to 3 bytes; one task
\* reads 1 or 2 bytes at offsets 0 to 3, one call after another. Nothing is
\* written, so the valid bytes of P are the backend's.
PastInit == InitWith(Phys_new(0, TRUE), {<<>>, <<1>>, <<1, 2>>, <<1, 2, 1>>}, FALSE)

PastRead == \E off \in 0..3, n \in 1..2 : AllIdle /\ read_at(1, 1, off, n)

PastNext ==
    \/ PastRead
    \/ commit_self_get(1)
    \/ commit_parent(1)
    \/ commit_read(1)
    \/ commit_install(1)
    \/ read_at_copy(1)

SpecPast == PastInit /\ [][PastNext]_vars

\* C34 (read past valid length). A read_at that has returned did not fault, and
\* it returned no byte at or beyond the valid length of a page: at most the
\* valid bytes from its offset on, and none when it starts at or beyond the
\* valid length of its first page.
C34_ReadPastValid ==
    \A t \in Tasks :
        (~task[t].busy /\ task[t].op = "read_at")
        => /\ task[t].res.status = "ok"
           /\ Len(task[t].res.data) <= Max(0, Len(backend) - task[t].off)

\* ------------------------------------------------------------- SpecFlusher
\* P = Phys::new(backend, 0, true), cloned cow at most once; one task writes
\* byte 0 of the leaves, flushes them and drops leaves, one call after
\* another, while the flusher task runs; backend writes may fail. The
\* executor keeps polling the flusher task.
FlusherInit == InitWith(Phys_new(0, TRUE), {<<1, 2>>}, TRUE)

FlusherWrite == \E p \in Leaves, b \in 1..MaxByte : AllIdle /\ write_at(1, p, 0, <<b>>)
FlusherClone == AllIdle /\ Uncloned /\ clone_as(1, TRUE, 0, None)
FlusherFlush == \E p \in Leaves : AllIdle /\ flush(1, p, 0, None, FALSE)
FlusherFlushAll == \E p \in Leaves : AllIdle /\ flush_all(1, p)
FlusherDropLeaf == \E p \in Leaves : AllIdle /\ drop(p)

FlusherNext ==
    \/ FlusherWrite
    \/ FlusherClone
    \/ FlusherFlush
    \/ FlusherFlushAll
    \/ FlusherDropLeaf
    \/ commit_self_get(1)
    \/ commit_parent(1)
    \/ commit_read(1)
    \/ commit_install(1)
    \/ commit_unique(1)
    \/ write_at_copy(1)
    \/ flush_get(1)
    \/ flush_send(1)
    \/ flush_parent(1)
    \/ flush_all_get(1)
    \/ flush_all_send(1)
    \/ flusher_recv
    \/ flusher_write
    \/ flusher_flush
    \/ flusher_end

SpecFlusher ==
    /\ FlusherInit /\ [][FlusherNext]_vars
    /\ WF_vars(flusher_recv) /\ WF_vars(flusher_write)
    /\ WF_vars(flusher_flush) /\ WF_vars(flusher_end)

\* One step of the flusher task, as the claim has it.
FlusherStep ==
    /\ (fl.pc = "recv" /\ fl'.pc \in {"write", "flush"})
       => /\ chan.q # <<>>
          /\ fl'.items = chan.q[1].items
          /\ chan'.q = SubSeq(chan.q, 2, Len(chan.q))
          /\ fl'.pc = IF chan.q[1].items = <<>> THEN "flush" ELSE "write"
    /\ (fl.pc = "write" /\ fl' # fl)
       => LET it == fl.items[1] IN
          /\ \/ backend' = write_all_at(backend, it.index * PAGE_SIZE,
                                        [k \in 1..it.len |-> mem[it.frame][k]])
             \/ backend' = backend
          /\ fl'.items = SubSeq(fl.items, 2, Len(fl.items))
          /\ fl'.pc = IF Len(fl.items) = 1 THEN "flush" ELSE "write"
    /\ (fl.pc = "flush" /\ fl' # fl) => fl'.pc = "recv" /\ backend' = backend
    /\ (fl.pc # "done" /\ fl'.pc = "done")
       => fl.pc = "recv" /\ chan.q = <<>> /\ Senders = {}
    /\ fl.pc = "done" => fl'.pc = "done"

\* C35 (flusher task). The flusher takes the items in the order of the queue;
\* for each item of what it took it writes frame[..valid_len] at index <<
\* PAGE_SHIFT, going on after a failed write, and then flushes the backend
\* once; it ends only on an empty channel without Senders, and once the last
\* Sender is gone it does end.
C35_FlusherTask ==
    /\ [][FlusherStep]_vars
    /\ (Senders = {}) ~> (fl.pc = "done")

\* Every leaf was dropped, the task wrote the page with the byte 2 back and
\* ended on the closed channel.
C35_Witness ==
    /\ fl.pc = "done" /\ Senders = {} /\ chan.closed
    /\ backend # <<>> /\ backend[1] = 2

\* --------------------------------------------------------------- SpecOwner
\* P = Phys::new(backend, 0, true), cloned, cow or not, at most once; two
\* tasks commit page 0 of the leaves, reading or writing, and the clone is
\* taken at any point of their commits. The critical sections interleave
\* freely.
OwnerInit == InitWith(Phys_new(0, TRUE), {<<1, 2>>}, FALSE)

OwnerCommit == \E t \in Tasks, p \in Leaves, write \in {None, 1} :
                  commit(t, p, 0, write, FALSE)
OwnerClone == \E cow \in BOOLEAN : Uncloned /\ clone_as(1, cow, 0, None)

OwnerNext ==
    \/ OwnerCommit
    \/ OwnerClone
    \/ \E t \in Tasks : commit_self_get(t)
    \/ \E t \in Tasks : commit_parent(t)
    \/ \E t \in Tasks : commit_read(t)
    \/ \E t \in Tasks : commit_install(t)
    \/ \E t \in Tasks : commit_unique(t)

SpecOwner == OwnerInit /\ [][OwnerNext]_vars

\* C36 (single page-table owner). No frame other than ZERO is held by two
\* page-table entries, of one Phys or of two.
C36_SingleOwner == \A f \in Frames : Cardinality(Holders(f)) <= 1

\* After a clone, a fork and a hand-over: both leaves hold a page 0 of their
\* own and the branch holds none.
C36_Witness ==
    \E p \in Leaves, q \in Leaves :
        /\ p # q
        /\ phys[p].parent.kind = "Phys" /\ phys[q].parent = phys[p].parent
        /\ Occupied(phys[p].frames[0]) /\ Occupied(phys[q].frames[0])
        /\ phys[p].frames[0].frame # phys[q].frames[0].frame
        /\ phys[phys[p].parent.phys].frames[0].st = "Vacant"

\* ----------------------------------------------------------------- SpecFat
\* A table of CLUSTER_COUNT clusters whose entries are Free, End, Bad or point
\* to a cluster, entry 2 with or without a reserved top bit; truncate and
\* allocate are called on it, one call after another. No chain of the table
\* loops.
FatRaws == {0, BAD_CLUSTER, EOC_LAST} \cup Allocable

\* The clusters that follow cluster c in its chain in table tab.
RECURSIVE Following(_, _, _)
Following(tab, c, fuel) ==
    LET e == from_raw(tab[c], c) IN
    IF fuel = 0 \/ e.tag # "Next" \/ e.n \notin Clusters THEN {}
    ELSE {e.n} \cup Following(tab, e.n, fuel - 1)

\* A table whose chains do not loop.
NoLoop(tab) == \A c \in Allocable : c \notin Following(tab, c, CLUSTER_COUNT)

FatInit ==
    /\ phys = [p \in PhysIds |-> IF p = 1 THEN Phys_new_anon(FALSE) ELSE FreePhys]
    /\ mem = [f \in FrameIds |-> Zeros]
    /\ backend = <<>>
    /\ chan = [q |-> <<>>, closed |-> FALSE]
    /\ fl = [pc |-> "recv", items |-> <<>>]
    /\ task = [t \in Tasks |-> IdleTask]
    /\ faults = FALSE
    /\ wrote = [p \in PhysIds |-> [o \in Offs |-> None]]
    /\ sigset = SigSet_new(0)
    /\ \E e \in [Allocable -> FatRaws], top \in 0..1 :
          /\ fat = Fat_new([c \in Clusters |->
                    IF c < allocable_start THEN EOC_LAST
                    ELSE e[c] + (IF c = allocable_start THEN top * LOW_BITS ELSE 0)])
          /\ NoLoop(fat.tab)

FatTruncate == \E chain_start \in Allocable : truncate(chain_start)
\* prev, when given, is the last cluster of a chain.
FatAllocate == \E prev \in {None} \cup Allocable,
                  hint \in {None} \cup allocable_start..allocable_end :
                  /\ prev # None => Fat_get(fat.tab, prev).entry = FatEntry_End
                  /\ allocate(prev, hint)

FatNext ==
    \/ FatTruncate
    \/ FatAllocate

SpecFat == FatInit /\ [][FatNext]_vars

\* C37 (Fat::truncate). After truncate(chain_start) has returned Ok(n),
\* chain_start is End, every cluster that followed it in its chain is Free,
\* and n is the number of those clusters.
C37_Truncate ==
    (fat.op = "truncate" /\ fat.err = "")
    => LET rest == Following(fat.before, fat.arg, CLUSTER_COUNT) IN
       /\ from_raw(fat.tab[fat.arg], fat.arg) = FatEntry_End
       /\ \A c \in rest \ {fat.arg} : from_raw(fat.tab[c], c) = FatEntry_Free
       /\ fat.arg \notin rest => fat.ret = Cardinality(rest)

\* The Free clusters of the allocable range in table tab.
FreeIn(tab) == {c \in Allocable : from_raw(tab[c], c) = FatEntry_Free}

\* C38 (Fat::allocate). allocate(prev, hint) returns ENOSPC only when no
\* allocable cluster is Free; otherwise it returns the first Free cluster from
\* hint on, or else the first one below hint, marks it End, and makes prev,
\* when given, point to it.
C38_Allocate ==
    fat.op = "allocate"
    => LET free == FreeIn(fat.before)
           h == IF fat.hint = None THEN allocable_start ELSE fat.hint
           above == {c \in free : c >= h}
       IN /\ free = {} => fat.err = ENOSPC
          /\ free # {}
             => /\ fat.err = ""
                /\ fat.ret \in free
                /\ \A c \in (IF above # {} THEN above ELSE free) : fat.ret <= c
                /\ above # {} => fat.ret \in above
                /\ from_raw(fat.tab[fat.ret], fat.ret) = FatEntry_End
                /\ fat.arg # None
                   => from_raw(fat.tab[fat.arg], fat.arg) = FatEntry_Next(fat.ret)
====
